---- MODULE Spec2Model ----
(***************************************************************************)
(* A model of libinsdb's identifier resolution and schema loading:         *)
(*   - libinsdb/local.py     LocalInsDb (read_schema, parse_schema, the    *)
(*                           queries, merge)                               *)
(*   - libinsdb/dbobject.py  DbObject (tracked set, query dispatch) and    *)
(*                           LocalDatabase (query_data_file)               *)
(*   - libinsdb/instrumentdb.py  InstrumentDatabase, the wrapper           *)
(*                           (get_list_of_data_files)                      *)
(* Strings are sequences of one-character strings, so that split,          *)
(* startswith, removeprefix and slicing are computed as Python computes    *)
(* them.  A UUID is a small natural number; its text form is hyphenated.   *)
(***************************************************************************)
EXTENDS Integers, Sequences, FiniteSets, TLC

VARIABLES
    folder,     \* the storage folder: the schema files it holds, decoded
    schema,     \* the document read_schema decoded and handed to parse_schema
    exception,  \* the exception the constructor raised ("" when it raised none)
    hashOrder,  \* the order in which a Python set of UUIDs is iterated
    backend,    \* the class of the instance: "LocalInsDb" | "LocalDatabase"
    pc,         \* "new" | "ready" | "failed": position of the constructor
    db,         \* the maps of the LocalInsDb instance
    other,      \* the maps of a second LocalInsDb, the argument of merge
    tracked,    \* DbObject._tracked_data_files: its uuid.UUID members
    tracked_str,      \* DbObject._tracked_data_files: its str members
    queried_objects,  \* InstrumentDatabase.queried_objects: (type, UUID) pairs
    nq,         \* number of queries issued so far
    last        \* the last call: its arguments, result and lookups

vars ==
    <<folder, schema, exception, hashOrder, backend, pc, db, other, tracked,
      tracked_str, queried_objects, nq, last>>

\* Python's None where a UUID is expected (no UUID of the model is 0)
None == 0

\* ------------------------------------------------------------------ bounds

MaxQueries == 1

\* ----------------------------------------------------------------- strings

SLASH == <<"/">>

\* str.startswith
StartsWith(s, p) ==
    /\ Len(s) >= Len(p)
    /\ SubSeq(s, 1, Len(p)) = p

\* s[n:]
DropChars(s, n) == SubSeq(s, n + 1, Len(s))

\* str.removeprefix
RemovePrefix(s, p) == IF StartsWith(s, p) THEN DropChars(s, Len(p)) ELSE s

\* str.split("/"): the segments between the separators, empty ones included
RECURSIVE SplitFrom(_, _, _)
SplitFrom(s, i, cur) ==
    IF i > Len(s) THEN <<cur>>
    ELSE IF s[i] = "/" THEN <<cur>> \o SplitFrom(s, i + 1, <<>>)
    ELSE SplitFrom(s, i + 1, Append(cur, s[i]))

Split(s) == SplitFrom(s, 1, <<>>)

IsNonEmpty(x) == x # <<>>

\* [x for x in path.split("/") if x != ""]
NonEmptyParts(s) == SelectSeq(Split(s), IsNonEmpty)

\* "/".join(parts)
RECURSIVE Join(_)
Join(parts) ==
    IF parts = <<>> THEN <<>>
    ELSE IF Len(parts) = 1 THEN parts[1]
    ELSE parts[1] \o SLASH \o Join(Tail(parts))

\* the last element of a sequence (parts[-1])
Last(seq) == seq[Len(seq)]

\* ------------------------------------------------------------------- UUIDs

\* UUIDs that schema documents use for their objects
SchemaUuids == {1, 2}
\* UUIDs a caller may ask for: 3 is never part of a schema
Uuids == SchemaUuids \cup {3}

Digit == (1 :> "1") @@ (2 :> "2") @@ (3 :> "3")

\* str(uuid): the canonical, hyphenated text form
UuidStr(u) == <<"0", "-", Digit[u]>>

IsNotHyphen(c) == c # "-"

\* UUID(text): hyphens are dropped, the rest must be the hex digits of a UUID;
\* anything else raises ValueError (modelled as None)
ParseUuid(s) ==
    LET hex == SelectSeq(s, IsNotHyphen)
    IN  IF \E u \in Uuids : <<"0", Digit[u]>> = hex
        THEN CHOOSE u \in Uuids : <<"0", Digit[u]>> = hex
        ELSE None

\* ------------------------------------------------------------ upload dates

\* the years of the upload dates, and their text in a schema document
Years == {2017, 2018}
YearStr == (2017 :> <<"2", "0", "1", "7">>) @@ (2018 :> <<"2", "0", "1", "8">>)

\* parser.isoparse / datetime.fromisoformat: the date that the text names
IsoParse(text) == CHOOSE y \in Years : YearStr[y] = text

\* ------------------------------------------------------------------- dicts

\* A Python dict: its keys in insertion order, and its values
EmptyDict == [keys |-> <<>>, val |-> <<>>]

Has(d, k) == k \in DOMAIN d.val

\* d[k] = v: a new key goes last, an existing key keeps its place
DictSet(d, k, v) ==
    [keys |-> IF Has(d, k) THEN d.keys ELSE Append(d.keys, k),
     val  |-> (k :> v) @@ d.val]

Keys(d) == DOMAIN d.val

\* -------------------------------------------------- the objects (objects.py)

\* objects.py: FormatSpecification
FormatSpecification(uuid) == [kind |-> "FormatSpecification", uuid |-> uuid]

\* objects.py: Entity; quantities defaults to a fresh empty set
Entity(uuid, name, full_path, parent) ==
    [kind |-> "Entity", uuid |-> uuid, name |-> name, full_path |-> full_path,
     parent |-> parent, quantities |-> {}]

\* objects.py: Quantity; data_files defaults to a fresh empty set
Quantity(uuid, name, format_spec, entity) ==
    [kind |-> "Quantity", uuid |-> uuid, name |-> name,
     format_spec |-> format_spec, entity |-> entity, data_files |-> {}]

\* objects.py: DataFile; release_tags=None becomes a fresh empty set
DataFile(uuid, upload_date, quantity) ==
    [kind |-> "DataFile", uuid |-> uuid, upload_date |-> upload_date,
     quantity |-> quantity, release_tags |-> {}]

\* objects.py: Release
Release(tag, data_files) == [kind |-> "Release", tag |-> tag, data_files |-> data_files]

\* ------------------------------------------------------- schema documents

EntityNames == {<<"a">>, <<"b">>}
QuantityNames == {<<"q">>, <<"p">>}
TagR == <<"r">>
TagReleases2 == <<"r", "e", "l", "e", "a", "s", "e", "s", "2">>
Tags == {TagR, TagReleases2}

\* A node of the "entities" forest of the document
Node(u, n, ch) == [uuid |-> UuidStr(u), name |-> n, children |-> ch]

Leaves == {Node(u, n, <<>>) : u \in SchemaUuids, n \in EntityNames}

\* forests of at most two nodes: one root, two roots, a root with one child
EntityForests ==
    {<<x>> : x \in Leaves}
    \cup {<<x, y>> : x \in Leaves, y \in Leaves}
    \cup {<<Node(u, n, <<y>>)>> : u \in SchemaUuids, n \in EntityNames, y \in Leaves}

QuantityDocs ==
    {[uuid |-> UuidStr(u), name |-> n, entity |-> UuidStr(e)] :
        u \in SchemaUuids, n \in QuantityNames, e \in SchemaUuids}

DataFileDocs ==
    {[uuid |-> UuidStr(u), upload_date |-> YearStr[2017], quantity |-> UuidStr(q)] :
        u \in SchemaUuids, q \in SchemaUuids}

\* the member list of a release, as a sequence of UUID texts in ascending order
RECURSIVE TextsOf(_)
TextsOf(S) ==
    IF S = {} THEN <<>>
    ELSE LET m == CHOOSE x \in S : \A y \in S : x <= y
         IN  <<UuidStr(m)>> \o TextsOf(S \ {m})

ReleaseDocs ==
    {[tag |-> t, data_files |-> TextsOf(S)] : t \in Tags, S \in SUBSET SchemaUuids}

\* ------------------------------------------ parse_schema (LocalInsDb.__init__)

EmptyDb ==
    [format_specs |-> EmptyDict, entities |-> EmptyDict, quantities |-> EmptyDict,
     data_files |-> EmptyDict, releases |-> EmptyDict,
     path_to_entity |-> EmptyDict, path_to_quantity |-> EmptyDict]

\* _parse_entity: full_path = f"{base_path}/{name}"
ParseEntity(obj_dict, base_path, parent) ==
    Entity(ParseUuid(obj_dict.uuid), obj_dict.name,
           base_path \o SLASH \o obj_dict.name, parent)

\* _walk_entity_tree_and_parse: depth-first, a node before its children
RECURSIVE WalkEntityTree(_, _, _, _)
WalkEntityTree(dictionary, objs, base_path, parent) ==
    IF objs = <<>> THEN dictionary
    ELSE LET obj_dict == Head(objs)
             obj      == ParseEntity(obj_dict, base_path, parent)
             d1       == DictSet(dictionary, obj.uuid, obj)
             d2       == IF obj_dict.children # <<>>
                         THEN WalkEntityTree(d1, obj_dict.children,
                                             base_path \o SLASH \o obj.name, obj.uuid)
                         ELSE d1
         IN  WalkEntityTree(d2, Tail(objs), base_path, parent)

ParseFormatSpec(obj_dict) == FormatSpecification(ParseUuid(obj_dict.uuid))

\* _parse_quantity (documents of the model carry no "format_spec" key)
ParseQuantity(obj_dict) ==
    Quantity(ParseUuid(obj_dict.uuid), obj_dict.name, None, ParseUuid(obj_dict.entity))

\* parse_data_file
ParseDataFile(obj_dict) ==
    DataFile(ParseUuid(obj_dict.uuid), IsoParse(obj_dict.upload_date),
             ParseUuid(obj_dict.quantity))

\* _parse_release: data_files=set([UUID(x) for x in ...])
ParseRelease(obj_dict) ==
    Release(obj_dict.tag, {ParseUuid(obj_dict.data_files[i]) :
                              i \in 1..Len(obj_dict.data_files)})

\* for obj_dict in schema.get("format_specifications", []): ...
RECURSIVE FillFormatSpecs(_, _)
FillFormatSpecs(d, docs) ==
    IF docs = <<>> THEN d
    ELSE LET obj == ParseFormatSpec(Head(docs))
         IN  FillFormatSpecs(DictSet(d, obj.uuid, obj), Tail(docs))

\* for obj_dict in schema.get("quantities", []): ...
RECURSIVE FillQuantities(_, _)
FillQuantities(d, docs) ==
    IF docs = <<>> THEN d
    ELSE LET obj == ParseQuantity(Head(docs))
         IN  FillQuantities(DictSet(d, obj.uuid, obj), Tail(docs))

\* for obj_dict in schema.get("data_files", []): ...
RECURSIVE FillDataFiles(_, _)
FillDataFiles(d, docs) ==
    IF docs = <<>> THEN d
    ELSE LET obj == ParseDataFile(Head(docs))
         IN  FillDataFiles(DictSet(d, obj.uuid, obj), Tail(docs))

\* for obj_dict in schema.get("releases", []): self.releases[tag] = ...
RECURSIVE FillReleases(_, _)
FillReleases(d, docs) ==
    IF docs = <<>> THEN d
    ELSE LET obj == ParseRelease(Head(docs))
         IN  FillReleases(DictSet(d, obj.tag, obj), Tail(docs))

\* self.path_to_entity[entity.full_path] = uuid, in the order of entities.items()
RECURSIVE PathToEntity(_, _, _)
PathToEntity(d, entities, i) ==
    IF i > Len(entities.keys) THEN d
    ELSE LET uuid == entities.keys[i]
         IN  PathToEntity(DictSet(d, entities.val[uuid].full_path, uuid), entities, i + 1)

KeyError == "KeyError"
InstrumentDbFormatError == "InstrumentDbFormatError"
ValueError == "ValueError"

\* a value, or the exception raised instead of it
Ok(v) == [ok |-> TRUE, v |-> v, error |-> ""]
Raise(e) == [ok |-> FALSE, v |-> <<>>, error |-> e]

\* quantity_path: f"{entity.full_path}/{quantity.name}"; KeyError when the
\* entity of the quantity is not indexed
QuantityPath(entities, quantities, uuid) ==
    LET quantity == quantities.val[uuid]
    IN  IF ~Has(entities, quantity.entity) THEN Raise(KeyError)
        ELSE Ok(entities.val[quantity.entity].full_path \o SLASH \o quantity.name)

\* {self.quantity_path(quantity.uuid): uuid for uuid, quantity in quantities.items()}
RECURSIVE PathToQuantity(_, _, _, _)
PathToQuantity(d, entities, quantities, i) ==
    IF i > Len(quantities.keys) THEN Ok(d)
    ELSE LET uuid == quantities.keys[i]
             path == QuantityPath(entities, quantities, uuid)
         IN  IF ~path.ok THEN path
             ELSE PathToQuantity(DictSet(d, path.v, uuid), entities, quantities, i + 1)

\* for cur_uuid, cur_quantity in self.quantities.items():
\*     self.entities[cur_quantity.entity].quantities.add(cur_uuid)
RECURSIVE LinkQuantitiesMutSkipFirst(_, _, _)
LinkQuantitiesMutSkipFirst(entities, quantities, i) ==
    IF i > Len(quantities.keys) THEN Ok(entities)
    ELSE LET cur_uuid == quantities.keys[i]
             e        == quantities.val[cur_uuid].entity
         IN  IF ~Has(entities, e) THEN Raise(KeyError)
             ELSE LinkQuantitiesMutSkipFirst(
                      IF i = 1 THEN entities
                      ELSE [entities EXCEPT !.val[e].quantities = @ \cup {cur_uuid}],
                      quantities, i + 1)

RECURSIVE LinkQuantities(_, _, _)
LinkQuantities(entities, quantities, i) ==
    IF i > Len(quantities.keys) THEN Ok(entities)
    ELSE LET cur_uuid == quantities.keys[i]
             e        == quantities.val[cur_uuid].entity
         IN  IF ~Has(entities, e) THEN Raise(KeyError)
             ELSE LinkQuantities(
                      [entities EXCEPT !.val[e].quantities = @ \cup {cur_uuid}],
                      quantities, i + 1)

\* for cur_uuid, cur_data_file in self.data_files.items():
\*     self.quantities[cur_data_file.quantity].data_files.add(cur_uuid)
RECURSIVE LinkDataFilesMutToFirst(_, _, _)
LinkDataFilesMutToFirst(quantities, data_files, i) ==
    IF i > Len(data_files.keys) THEN Ok(quantities)
    ELSE LET cur_uuid == data_files.keys[i]
             q        == data_files.val[cur_uuid].quantity
         IN  IF ~Has(quantities, q) THEN Raise(KeyError)
             ELSE LinkDataFilesMutToFirst(
                      [quantities EXCEPT !.val[quantities.keys[1]].data_files =
                                             @ \cup {cur_uuid}],
                      data_files, i + 1)

RECURSIVE LinkDataFiles(_, _, _)
LinkDataFiles(quantities, data_files, i) ==
    IF i > Len(data_files.keys) THEN Ok(quantities)
    ELSE LET cur_uuid == data_files.keys[i]
             q        == data_files.val[cur_uuid].quantity
         IN  IF ~Has(quantities, q) THEN Raise(KeyError)
             ELSE LinkDataFiles(
                      [quantities EXCEPT !.val[q].data_files = @ \cup {cur_uuid}],
                      data_files, i + 1)

\* the members of a Python set of UUIDs, in the order a for loop visits them
IterSet(S, order) == SelectSeq(order, LAMBDA u : u \in S)

\* for cur_uuid in cur_release.data_files:
\*     self.data_files[cur_uuid].release_tags.add(cur_release_tag)
RECURSIVE TagMembers(_, _, _, _)
TagMembers(data_files, tag, members, j) ==
    IF j > Len(members) THEN Ok(data_files)
    ELSE IF ~Has(data_files, members[j]) THEN Raise(KeyError)
    ELSE TagMembers([data_files EXCEPT !.val[members[j]].release_tags = @ \cup {tag}],
                    tag, members, j + 1)

\* _fill_release_tags: for cur_release_tag, cur_release in self.releases.items()
RECURSIVE FillReleaseTagsMutFirstOnly(_, _, _, _)
FillReleaseTagsMutFirstOnly(data_files, releases, order, i) ==
    IF i > Len(releases.keys) \/ i > 1 THEN Ok(data_files)
    ELSE LET tag  == releases.keys[i]
             next == TagMembers(data_files, tag,
                                IterSet(releases.val[tag].data_files, order), 1)
         IN  IF ~next.ok THEN next
             ELSE FillReleaseTagsMutFirstOnly(next.v, releases, order, i + 1)

RECURSIVE FillReleaseTags(_, _, _, _)
FillReleaseTags(data_files, releases, order, i) ==
    IF i > Len(releases.keys) THEN Ok(data_files)
    ELSE LET tag  == releases.keys[i]
             next == TagMembers(data_files, tag,
                                IterSet(releases.val[tag].data_files, order), 1)
         IN  IF ~next.ok THEN next
             ELSE FillReleaseTags(next.v, releases, order, i + 1)

Failed(error) == [ok |-> FALSE, error |-> error, db |-> EmptyDb]

\* parse_schema: the index, or the KeyError a dangling reference raises
ParseSchema(doc, order) ==
    LET format_specs == FillFormatSpecs(EmptyDict, doc.format_specifications)
        entities0    == WalkEntityTree(EmptyDict, doc.entities, <<>>, None)
        quantities0  == FillQuantities(EmptyDict, doc.quantities)
        data_files0  == FillDataFiles(EmptyDict, doc.data_files)
        releases     == FillReleases(EmptyDict, doc.releases)
        path_to_entity   == PathToEntity(EmptyDict, entities0, 1)
        path_to_quantity == PathToQuantity(EmptyDict, entities0, quantities0, 1)
        entities     == LinkQuantities(entities0, quantities0, 1)
        quantities   == LinkDataFiles(quantities0, data_files0, 1)
        data_files   == FillReleaseTags(data_files0, releases, order, 1)
    IN  IF ~path_to_quantity.ok THEN Failed(path_to_quantity.error)
        ELSE IF ~entities.ok THEN Failed(entities.error)
        ELSE IF ~quantities.ok THEN Failed(quantities.error)
        ELSE IF ~data_files.ok THEN Failed(data_files.error)
        ELSE [ok |-> TRUE, error |-> "",
              db |-> [format_specs |-> format_specs, entities |-> entities.v,
                      quantities |-> quantities.v, data_files |-> data_files.v,
                      releases |-> releases, path_to_entity |-> path_to_entity,
                      path_to_quantity |-> path_to_quantity.v]]

\* ------------------------------------------------------------------ merge

\* {**x, **y}: the keys of x in their order, then the new keys of y in theirs;
\* a key of both keeps its place in x and takes the value of y
DictMergeMutKeepSelf(x, y) ==
    [keys |-> x.keys \o SelectSeq(y.keys, LAMBDA k : ~Has(x, k)),
     val  |-> [k \in Keys(x) \cup Keys(y) |->
                 IF Has(x, k) THEN x.val[k] ELSE y.val[k]]]

DictMerge(x, y) ==
    [keys |-> x.keys \o SelectSeq(y.keys, LAMBDA k : ~Has(x, k)),
     val  |-> [k \in Keys(x) \cup Keys(y) |->
                 IF Has(y, k) THEN y.val[k] ELSE x.val[k]]]

\* LocalInsDb.merge(other): the seven maps of self after the call
Merge(self, oth) ==
    [format_specs     |-> DictMerge(self.format_specs, oth.format_specs),
     entities         |-> DictMerge(self.entities, oth.entities),
     quantities       |-> DictMerge(self.quantities, oth.quantities),
     data_files       |-> DictMerge(self.data_files, oth.data_files),
     releases         |-> DictMerge(self.releases, oth.releases),
     path_to_entity   |-> DictMerge(self.path_to_entity, oth.path_to_entity),
     path_to_quantity |-> DictMerge(self.path_to_quantity, oth.path_to_quantity)]

\* ------------------------------------- check_consistency and read_schema

\* _DB_FLATFILE_SCHEMA_FILE_EXTENSIONS, in the order of the list
SCHEMA_FILE_EXTENSIONS == <<".json", ".json.gz", ".yaml", ".yaml.gz">>

\* what read_schema starts from (schema = None), and the document {}: both
\* are false for "if not schema" (every other document of the model has a
\* format specification and is true)
NoSchema ==
    [format_specifications |-> <<>>, entities |-> <<>>, quantities |-> <<>>,
     data_files |-> <<>>, releases |-> <<>>]

\* schema_file_path.exists(): a folder maps each extension to <<>> (no such
\* file) or to <<document>> (the file, as its parser decodes it)
Exists(dir, ext) == dir[ext] # <<>>

\* check_consistency: InstrumentDbFormatError unless one schema file exists
CheckConsistency(dir) ==
    IF \E i \in 1..Len(SCHEMA_FILE_EXTENSIONS) : Exists(dir, SCHEMA_FILE_EXTENSIONS[i])
    THEN Ok(TRUE) ELSE Raise(InstrumentDbFormatError)

\* the loop of read_schema from the i-th extension on: a file that is not
\* there is skipped (FileNotFoundError), a file that is there is decoded and
\* assigned to schema, and the loop goes on to the next extension
RECURSIVE ReadSchemaLoop(_, _, _)
ReadSchemaLoop(dir, i, cur) ==
    IF i > Len(SCHEMA_FILE_EXTENSIONS) THEN cur
    ELSE LET cur_ext == SCHEMA_FILE_EXTENSIONS[i]
         IN  IF Exists(dir, cur_ext) THEN ReadSchemaLoop(dir, i + 1, dir[cur_ext][1])
             ELSE ReadSchemaLoop(dir, i + 1, cur)

\* read_schema up to the call of parse_schema: the document, or the error
ReadSchema(dir) ==
    LET doc == ReadSchemaLoop(dir, 1, NoSchema)
    IN  IF doc = NoSchema THEN Raise(InstrumentDbFormatError) ELSE Ok(doc)

\* a folder whose only schema file is schema.json
JsonOnly(doc) ==
    [ext \in {SCHEMA_FILE_EXTENSIONS[i] : i \in 1..Len(SCHEMA_FILE_EXTENSIONS)} |->
        IF ext = ".json" THEN <<doc>> ELSE <<>>]

\* --------------------------------------------- LocalInsDb's typed lookups

\* the outcome of a call: what it returned or raised, the maps it indexed (in
\* order, with the key), and the UUIDs it handed to add_uuid_to_tracked_list
\* (added_str: the strings it handed to it, which LocalInsDb never does)
Outcome(res, lookups, added) ==
    [res |-> res, lookups |-> lookups, added |-> added, added_str |-> {}]

At(map, key) == [map |-> map, key |-> key]

\* d[k]: the value, or KeyError
Lookup(d, k) == IF Has(d, k) THEN Ok(d.val[k]) ELSE Raise(KeyError)

\* query_entity(identifier) with a UUID: self.entities[identifier]
QueryEntityUuid(idx, uuid) ==
    Outcome(Lookup(idx.entities, uuid), <<At("entities", uuid)>>, {})

\* query_quantity(identifier) with a UUID: self.quantities[identifier]
QueryQuantityUuid(idx, uuid) ==
    Outcome(Lookup(idx.quantities, uuid), <<At("quantities", uuid)>>, {})

\* query_format_spec(identifier): self.format_specs[identifier]
QueryFormatSpec(idx, uuid) ==
    Outcome(Lookup(idx.format_specs, uuid), <<At("format_specs", uuid)>>, {})

\* _parse_data_file_path: (relname, entity path, quantity name), or ValueError
ParseDataFilePathMutTwo(path) ==
    LET parts == NonEmptyParts(path)
    IN  IF Len(parts) < 2 THEN Raise(ValueError)
        ELSE Ok([relname  |-> parts[1],
                 entity   |-> SLASH \o Join(SubSeq(parts, 2, Len(parts) - 1)),
                 quantity |-> Last(parts)])

ParseDataFilePath(path) ==
    LET parts == NonEmptyParts(path)
    IN  IF Len(parts) < 3 THEN Raise(ValueError)
        ELSE Ok([relname  |-> parts[1],
                 entity   |-> SLASH \o Join(SubSeq(parts, 2, Len(parts) - 1)),
                 quantity |-> Last(parts)])

\* the first element of seq, or None: where a for loop with a break stops
First(seq) == IF seq = <<>> THEN None ELSE Head(seq)

RELEASES_PREFIX == <<"/", "r", "e", "l", "e", "a", "s", "e", "s", "/">>

\* query_data_file, the branch of a UUID (given, or parsed from the string):
\* the UUID is tracked before self.data_files is indexed
DataFileByUuid(idx, uuid, track) ==
    Outcome(Lookup(idx.data_files, uuid), <<At("data_files", uuid)>>,
            IF track THEN {uuid} ELSE {})

\* the resolution of a release-scoped path, from _parse_data_file_path on
ResolvePath(idx, order, path, track) ==
    LET parsed   == ParseDataFilePath(path)
    IN  IF ~parsed.ok THEN Outcome(Raise(ValueError), <<>>, {})
        ELSE
        LET relname       == parsed.v.relname
            entity_path   == parsed.v.entity
            quantity_name == parsed.v.quantity
            seen1 == <<At("releases", relname)>>
            seen2 == Append(seen1, At("path_to_entity", entity_path))
        IN  IF ~Has(idx.releases, relname) THEN Outcome(Raise(KeyError), seen1, {})
            ELSE IF ~Has(idx.path_to_entity, entity_path)
            THEN Outcome(Raise(KeyError), seen2, {})
            ELSE
            LET entity_uuid == idx.path_to_entity.val[entity_path]
                seen3 == Append(seen2, At("entities", entity_uuid))
            IN  IF ~Has(idx.entities, entity_uuid)
                THEN Outcome(Raise(KeyError), seen3, {})
                ELSE
                LET release_uuids == idx.releases.val[relname].data_files
                    entity == idx.entities.val[entity_uuid]
                    scan   == IterSet(entity.quantities, order)
                    \* the scan stops at the first name match, or at a UUID
                    \* that self.quantities does not hold (KeyError)
                    q == First(SelectSeq(scan,
                            LAMBDA u : \/ ~Has(idx.quantities, u)
                                       \/ idx.quantities.val[u].name = quantity_name))
                IN  IF q = None THEN Outcome(Raise(KeyError), seen3, {})
                    ELSE IF ~Has(idx.quantities, q)
                    THEN Outcome(Raise(KeyError), Append(seen3, At("quantities", q)), {})
                    ELSE
                    LET seen4 == Append(seen3, At("quantities", q))
                        files == IterSet(idx.quantities.val[q].data_files, order)
                        f     == First(SelectSeq(files, LAMBDA u : u \in release_uuids))
                    IN  IF f = None THEN Outcome(Raise(KeyError), seen4, {})
                        ELSE Outcome(Lookup(idx.data_files, f),
                                     Append(seen4, At("data_files", f)),
                                     IF track THEN {f} ELSE {})

\* query_data_file, the branch of a path (the except ValueError block)
DataFileByPath(idx, order, text, track) ==
    ResolvePath(idx, order, RemovePrefix(text, RELEASES_PREFIX), track)

\* An identifier is a uuid.UUID object or a str
UuidId(u) == [form |-> "uuid", uuid |-> u, text |-> <<>>]
StrId(s) == [form |-> "str", uuid |-> None, text |-> s]

\* LocalInsDb.query_data_file(identifier, track)
QueryDataFile(idx, order, identifier, track) ==
    IF identifier.form = "uuid" THEN DataFileByUuid(idx, identifier.uuid, track)
    ELSE LET uuid == ParseUuid(identifier.text)
         IN  IF uuid # None THEN DataFileByUuid(idx, uuid, track)
             ELSE DataFileByPath(idx, order, identifier.text, track)

\* LocalInsDb.query_entity(identifier): a UUID, or a full path
QueryEntity(idx, identifier) ==
    IF identifier.form = "uuid" THEN QueryEntityUuid(idx, identifier.uuid)
    ELSE LET seen == <<At("path_to_entity", identifier.text)>>
         IN  IF ~Has(idx.path_to_entity, identifier.text)
             THEN Outcome(Raise(KeyError), seen, {})
             ELSE LET entity_uuid == idx.path_to_entity.val[identifier.text]
                  IN  Outcome(Lookup(idx.entities, entity_uuid),
                              Append(seen, At("entities", entity_uuid)), {})

\* query_quantity with a path: entity_path and quantity_name are the path up
\* to and after its last "/"
QuantityByPathMutPrefix(idx, order, text) ==
    LET path_components == Split(text)
        entity_path   == Join(SubSeq(path_components, 1, Len(path_components) - 1))
        quantity_name == Last(path_components)
        seen1 == <<At("path_to_entity", entity_path)>>
    IN  IF ~Has(idx.path_to_entity, entity_path) THEN Outcome(Raise(KeyError), seen1, {})
        ELSE
        LET entity_uuid == idx.path_to_entity.val[entity_path]
            seen2 == Append(seen1, At("entities", entity_uuid))
        IN  IF ~Has(idx.entities, entity_uuid) THEN Outcome(Raise(KeyError), seen2, {})
            ELSE
            LET scan == IterSet(idx.entities.val[entity_uuid].quantities, order)
                q == First(SelectSeq(scan,
                        LAMBDA u : \/ ~Has(idx.quantities, u)
                                   \/ StartsWith(quantity_name, idx.quantities.val[u].name)))
            IN  IF q = None THEN Outcome(Raise(KeyError), seen2, {})
                ELSE Outcome(Lookup(idx.quantities, q),
                             Append(seen2, At("quantities", q)), {})

QuantityByPath(idx, order, text) ==
    LET path_components == Split(text)
        entity_path   == Join(SubSeq(path_components, 1, Len(path_components) - 1))
        quantity_name == Last(path_components)
        seen1 == <<At("path_to_entity", entity_path)>>
    IN  IF ~Has(idx.path_to_entity, entity_path) THEN Outcome(Raise(KeyError), seen1, {})
        ELSE
        LET entity_uuid == idx.path_to_entity.val[entity_path]
            seen2 == Append(seen1, At("entities", entity_uuid))
        IN  IF ~Has(idx.entities, entity_uuid) THEN Outcome(Raise(KeyError), seen2, {})
            ELSE
            LET scan == IterSet(idx.entities.val[entity_uuid].quantities, order)
                \* the scan stops at the first name match, or at a UUID that
                \* self.quantities does not hold (KeyError)
                q == First(SelectSeq(scan,
                        LAMBDA u : \/ ~Has(idx.quantities, u)
                                   \/ idx.quantities.val[u].name = quantity_name))
            IN  IF q = None THEN Outcome(Raise(KeyError), seen2, {})
                ELSE Outcome(Lookup(idx.quantities, q),
                             Append(seen2, At("quantities", q)), {})

\* LocalInsDb.query_quantity(identifier): a UUID, or a path
QueryQuantity(idx, order, identifier) ==
    IF identifier.form = "uuid" THEN QueryQuantityUuid(idx, identifier.uuid)
    ELSE QuantityByPath(idx, order, identifier.text)

\* ------------------------------------------------------- DbObject.query

DATA_FILES == <<"/", "d", "a", "t", "a", "_", "f", "i", "l", "e", "s">>
QUANTITIES == <<"/", "q", "u", "a", "n", "t", "i", "t", "i", "e", "s">>
ENTITIES == <<"/", "e", "n", "t", "i", "t", "i", "e", "s">>
FORMAT_SPECS == <<"/", "f", "o", "r", "m", "a", "t", "_", "s", "p", "e", "c", "s">>
RELEASES == <<"/", "r", "e", "l", "e", "a", "s", "e", "s">>

\* uuid = UUID(identifier.split("/")[-1]); return method_to_call(uuid)
TypedMutSwapped(idx, order, text, track, kind) ==
    LET uuid == ParseUuid(Last(Split(text)))
    IN  IF uuid = None THEN Outcome(Raise(ValueError), <<>>, {})
        ELSE IF kind = "data_files" THEN QueryDataFile(idx, order, UuidId(uuid), track)
        ELSE IF kind = "quantities" THEN QueryEntityUuid(idx, uuid)
        ELSE IF kind = "entities" THEN QueryQuantityUuid(idx, uuid)
        ELSE QueryFormatSpec(idx, uuid)

Typed(idx, order, text, track, kind) ==
    LET uuid == ParseUuid(Last(Split(text)))
    IN  IF uuid = None THEN Outcome(Raise(ValueError), <<>>, {})
        ELSE IF kind = "data_files" THEN QueryDataFile(idx, order, UuidId(uuid), track)
        ELSE IF kind = "quantities" THEN QueryQuantityUuid(idx, uuid)
        ELSE IF kind = "entities" THEN QueryEntityUuid(idx, uuid)
        ELSE QueryFormatSpec(idx, uuid)

\* DbObject.query(identifier, track): the calls that pass no track argument run
\* query_data_file with its default, track=True
Query(idx, order, identifier, track) ==
    IF identifier.form = "uuid" THEN QueryDataFile(idx, order, identifier, TRUE)
    ELSE LET text == identifier.text
         IN  IF StartsWith(text, DATA_FILES) THEN Typed(idx, order, text, track, "data_files")
             ELSE IF StartsWith(text, QUANTITIES) THEN Typed(idx, order, text, track, "quantities")
             ELSE IF StartsWith(text, ENTITIES) THEN Typed(idx, order, text, track, "entities")
             ELSE IF StartsWith(text, FORMAT_SPECS) THEN Typed(idx, order, text, track, "format_specs")
             ELSE IF StartsWith(text, RELEASES)
             THEN QueryDataFile(idx, order, StrId(DropChars(text, Len(RELEASES_PREFIX))), TRUE)
             ELSE QueryDataFile(idx, order, identifier, TRUE)

\* ------------------------- LocalDatabase (dbobject.py) and InstrumentDatabase

\* LocalDatabase.query_data_file(identifier, track): a UUID is tracked as it
\* is; for the text of a UUID it is the text, identifier, that is handed to
\* add_uuid_to_tracked_list; any other text is resolved as a path, as it is
LocalDatabaseQueryDataFile(idx, order, identifier, track) ==
    IF identifier.form = "uuid" THEN DataFileByUuid(idx, identifier.uuid, track)
    ELSE LET uuid == ParseUuid(identifier.text)
         IN  IF uuid # None
             THEN [DataFileByUuid(idx, uuid, FALSE) EXCEPT
                      !.added_str = IF track THEN {identifier.text} ELSE {}]
             ELSE ResolvePath(idx, order, identifier.text, track)

\* sorted(data_files, key=lambda x: x.upload_date): a stable sort, by
\* insertion of each element behind the elements that are not newer
SortedInsert(sorted, x) ==
    SelectSeq(sorted, LAMBDA y : y.upload_date <= x.upload_date)
    \o <<x>>
    \o SelectSeq(sorted, LAMBDA y : y.upload_date > x.upload_date)

RECURSIVE SortedByUploadDate(_)
SortedByUploadDate(seq) ==
    IF seq = <<>> THEN <<>>
    ELSE SortedInsert(SortedByUploadDate(SubSeq(seq, 1, Len(seq) - 1)), Last(seq))

\* what a call of the InstrumentDatabase wrapper did: the outcome of the
\* calls of self.dbobject, and the pairs it added to queried_objects
Wrapped(out, queried) ==
    [res |-> out.res, lookups |-> out.lookups, added |-> out.added,
     added_str |-> out.added_str, queried |-> queried]

\* result = self.dbobject.query_...(identifier)
\* if result and track: self.queried_objects.add((type(result), result.uuid))
TrackingMutAlways(out, track) ==
    Wrapped(out, IF out.res.ok THEN {<<out.res.v.kind, out.res.v.uuid>>} ELSE {})

Tracking(out, track) ==
    Wrapped(out, IF out.res.ok /\ track THEN {<<out.res.v.kind, out.res.v.uuid>>}
                 ELSE {})

\* InstrumentDatabase.query_quantity(identifier, track) over a LocalDatabase:
\* self.dbobject.query_quantity(identifier) is self.quantities[identifier]
WrapperQueryQuantity(idx, identifier, track) ==
    Tracking(QueryQuantityUuid(idx, identifier), track)

\* InstrumentDatabase.query_data_file(identifier, track) over a LocalDatabase:
\* self.dbobject.query_data_file(identifier) runs with its default track=True
WrapperQueryDataFile(idx, order, identifier, track) ==
    Tracking(LocalDatabaseQueryDataFile(idx, order, identifier, TRUE), track)

\* data_files.append(cur_data_file), or the exception of the query: acc is
\* the outcome so far (acc.res.v the list data_files), cur that of one query
Appended(acc, cur) ==
    [res       |-> IF cur.res.ok THEN Ok(Append(acc.res.v, cur.res.v)) ELSE cur.res,
     lookups   |-> acc.lookups \o cur.lookups,
     added     |-> acc.added \cup cur.added,
     added_str |-> acc.added_str \cup cur.added_str,
     queried   |-> acc.queried \cup cur.queried]

\* the loop of get_list_of_data_files over scan, from its i-th UUID on
RECURSIVE GetListLoop(_, _, _, _, _, _)
RECURSIVE GetListStep(_, _, _, _, _, _)
GetListStep(idx, order, scan, i, track, acc) ==
    IF ~acc.res.ok THEN acc
    ELSE GetListLoop(idx, order, scan, i + 1, track, acc)

GetListLoop(idx, order, scan, i, track, acc) ==
    IF i > Len(scan) THEN acc
    ELSE GetListStep(idx, order, scan, i, track,
             Appended(acc, WrapperQueryDataFile(idx, order, UuidId(scan[i]), track)))

\* return sorted(data_files, key=lambda x: x.upload_date)
Sorted(done) ==
    IF ~done.res.ok THEN done
    ELSE [done EXCEPT !.res = Ok(SortedByUploadDate(done.res.v))]

\* get_list_of_data_files once query_quantity has returned or raised
ListOfDataFilesOf(idx, order, quantity, track) ==
    IF ~quantity.res.ok THEN quantity
    ELSE Sorted(GetListLoop(idx, order, IterSet(quantity.res.v.data_files, order),
                            1, track, [quantity EXCEPT !.res = Ok(<<>>)]))

\* InstrumentDatabase.get_list_of_data_files(quantity_uuid, track)
GetListOfDataFiles(idx, order, quantity_uuid, track) ==
    ListOfDataFilesOf(idx, order, WrapperQueryQuantity(idx, quantity_uuid, track),
                      track)

\* InstrumentDatabase.query_entity(identifier, track) over a LocalDatabase:
\* self.dbobject.query_entity(identifier) is self.entities[identifier]
WrapperQueryEntity(idx, identifier, track) ==
    Tracking(QueryEntityUuid(idx, identifier), track)

\* DbObject.query(identifier) as a LocalDatabase runs it, with its default
\* track=True: the typed forms, then the path handed to query_data_file
LocalDatabaseTyped(idx, order, text, kind) ==
    LET uuid == ParseUuid(Last(Split(text)))
    IN  IF uuid = None THEN Outcome(Raise(ValueError), <<>>, {})
        ELSE IF kind = "data_files"
        THEN LocalDatabaseQueryDataFile(idx, order, UuidId(uuid), TRUE)
        ELSE IF kind = "quantities" THEN QueryQuantityUuid(idx, uuid)
        ELSE IF kind = "entities" THEN QueryEntityUuid(idx, uuid)
        ELSE QueryFormatSpec(idx, uuid)

LocalDatabaseQuery(idx, order, identifier) ==
    IF identifier.form = "uuid"
    THEN LocalDatabaseQueryDataFile(idx, order, identifier, TRUE)
    ELSE LET text == identifier.text
         IN  IF StartsWith(text, DATA_FILES)
             THEN LocalDatabaseTyped(idx, order, text, "data_files")
             ELSE IF StartsWith(text, QUANTITIES)
             THEN LocalDatabaseTyped(idx, order, text, "quantities")
             ELSE IF StartsWith(text, ENTITIES)
             THEN LocalDatabaseTyped(idx, order, text, "entities")
             ELSE IF StartsWith(text, FORMAT_SPECS)
             THEN LocalDatabaseTyped(idx, order, text, "format_specs")
             ELSE IF StartsWith(text, RELEASES)
             THEN LocalDatabaseQueryDataFile(idx, order,
                      StrId(DropChars(text, Len(RELEASES_PREFIX))), TRUE)
             ELSE LocalDatabaseQueryDataFile(idx, order, identifier, TRUE)

\* InstrumentDatabase.query(identifier, track): self.dbobject.query(identifier)
WrapperQuery(idx, order, identifier, track) ==
    Tracking(LocalDatabaseQuery(idx, order, identifier), track)

\* get_queried_entities / get_queried_quantities / get_queried_data_files:
\* [x[1] for x in self.queried_objects if x[0] == kind], one entry for each
\* pair of the set
GetQueried(queried, order, kind) ==
    IterSet({x[2] : x \in {y \in queried : y[1] = kind}}, order)

\* ------------------------------------------------------------ RemoteInsDb

InstrumentDbConnectionError == "InstrumentDbConnectionError"

\* requests.get(urljoin(self.server_address, url), headers=self.auth_header)
Request(url) == [method |-> "GET", url |-> url]

API == <<"/", "a", "p", "i">>

\* f"/api/data_files/{uuid}/" and its like
ApiUrl(kind, uuid) == API \o kind \o SLASH \o UuidStr(uuid) \o SLASH

\* what the server answers to one request: a status code and, with 200, the
\* fields of the JSON record that the client reads
Replies ==
    {[status |-> 404, uuid |-> None, ref |-> None, name |-> <<>>,
      upload_date |-> <<>>]}
    \cup {[status |-> 200, uuid |-> u, ref |-> 1, name |-> <<"q">>,
           upload_date |-> YearStr[2017]] : u \in SchemaUuids}

\* _validate_response: status_code != 200 raises InstrumentDbConnectionError
ValidateResponse(reply) == reply.status = 200

\* _create_data_file_from_response
CreateDataFileFromResponse(reply) ==
    DataFile(reply.uuid, reply.upload_date, reply.ref)

\* _query_data_file_from_uuid
RemoteDataFileFromUuid(uuid, track, reply) ==
    LET sent == <<Request(ApiUrl(DATA_FILES, uuid))>>
    IN  IF ~ValidateResponse(reply)
        THEN Outcome(Raise(InstrumentDbConnectionError), sent, {})
        ELSE Outcome(Ok(CreateDataFileFromResponse(reply)), sent,
                     IF track THEN {uuid} ELSE {})

\* RemoteInsDb.query_data_file(identifier, track)
RemoteQueryDataFile(identifier, track, reply) ==
    IF identifier.form = "uuid"
    THEN RemoteDataFileFromUuid(identifier.uuid, track, reply)
    ELSE LET uuid == ParseUuid(identifier.text)
         IN  IF uuid # None THEN RemoteDataFileFromUuid(uuid, track, reply)
             ELSE
             LET full_identifier ==
                     IF StartsWith(identifier.text, RELEASES_PREFIX)
                     THEN identifier.text
                     ELSE RELEASES_PREFIX \o identifier.text
                 sent == <<Request(full_identifier)>>
             IN  IF ~ValidateResponse(reply)
                 THEN Outcome(Raise(InstrumentDbConnectionError), sent, {})
                 ELSE Outcome(Ok(CreateDataFileFromResponse(reply)), sent,
                              IF track THEN {reply.uuid} ELSE {})

\* RemoteInsDb.query_quantity / query_entity / query_format_spec of a UUID
RemoteObject(kind, uuid, reply) ==
    LET sent == <<Request(ApiUrl(kind, uuid))>>
    IN  IF ~ValidateResponse(reply)
        THEN Outcome(Raise(InstrumentDbConnectionError), sent, {})
        ELSE Outcome(Ok(IF kind = QUANTITIES
                        THEN Quantity(uuid, reply.name, reply.ref, reply.ref)
                        ELSE IF kind = ENTITIES
                        THEN Entity(uuid, reply.name, None, reply.ref)
                        ELSE FormatSpecification(uuid)),
                     sent, {})

\* query, the typed forms, over a RemoteInsDb
RemoteTyped(text, track, kind, reply) ==
    LET uuid == ParseUuid(Last(Split(text)))
    IN  IF uuid = None THEN Outcome(Raise(ValueError), <<>>, {})
        ELSE IF kind = DATA_FILES
        THEN RemoteQueryDataFile(UuidId(uuid), track, reply)
        ELSE RemoteObject(kind, uuid, reply)

\* query(identifier, track) over a RemoteInsDb
RemoteQuery(identifier, track, reply) ==
    IF identifier.form = "uuid" THEN RemoteQueryDataFile(identifier, TRUE, reply)
    ELSE LET text == identifier.text
         IN  IF StartsWith(text, DATA_FILES) THEN RemoteTyped(text, track, DATA_FILES, reply)
             ELSE IF StartsWith(text, QUANTITIES)
             THEN RemoteTyped(text, track, QUANTITIES, reply)
             ELSE IF StartsWith(text, ENTITIES)
             THEN RemoteTyped(text, track, ENTITIES, reply)
             ELSE IF StartsWith(text, FORMAT_SPECS)
             THEN RemoteTyped(text, track, FORMAT_SPECS, reply)
             ELSE IF StartsWith(text, RELEASES)
             THEN RemoteQueryDataFile(StrId(DropChars(text, Len(RELEASES_PREFIX))),
                                      TRUE, reply)
             ELSE RemoteQueryDataFile(identifier, TRUE, reply)

\* ------------------------------------------------------------ the machine

\* the schema documents of the loading specification: every forest, and every
\* list of quantities, data files and releases with distinct keys
Ascending(first, second) ==
    {<<>>} \cup {<<d>> : d \in first \cup second}
           \cup {<<d, e>> : d \in first, e \in second}

QuantityDocsOf(u) == {d \in QuantityDocs : d.uuid = UuidStr(u)}
DataFileDocsOf(u) == {d \in DataFileDocs : d.uuid = UuidStr(u)}
ReleaseDocsOf(t) == {d \in ReleaseDocs : d.tag = t}

FormatSpecLists == {<<[uuid |-> UuidStr(1)]>>}

\* lists that name one key twice: the later entry replaces the earlier one
Twice(docs) == {p \in {<<d, e>> : d \in docs, e \in docs} : p[1] # p[2]}

Schemas ==
    [format_specifications : FormatSpecLists,
     entities   : EntityForests,
     quantities : Ascending(QuantityDocsOf(1), QuantityDocsOf(2)) \cup Twice(QuantityDocsOf(1)),
     data_files : Ascending(DataFileDocsOf(1), DataFileDocsOf(2)) \cup Twice(DataFileDocsOf(1)),
     releases   : Ascending(ReleaseDocsOf(TagR), ReleaseDocsOf(TagReleases2))
                  \cup Twice(ReleaseDocsOf(TagR))]

\* the schema documents of the query specification: two entities (nested, or
\* two roots of one name), two quantities, two data files, one or two releases
QueryForests ==
    {<<Node(1, <<"a">>, <<Node(2, <<"b">>, <<>>)>>)>>,
     <<Node(1, <<"a">>, <<>>), Node(2, <<"a">>, <<>>)>>}

QuerySchemas ==
    {d \in [format_specifications : FormatSpecLists,
            entities   : QueryForests,
            quantities : Ascending(QuantityDocsOf(1), QuantityDocsOf(2)),
            data_files : Ascending(DataFileDocsOf(1), DataFileDocsOf(2)),
            releases   : Ascending(ReleaseDocsOf(TagR), ReleaseDocsOf(TagReleases2))] :
        /\ Len(d.quantities) = 2
        /\ d.quantities[1].name = <<"q">>
        /\ d.quantities[1].entity = UuidStr(1)
        /\ Len(d.data_files) = 2
        /\ d.data_files[1].quantity = UuidStr(1)
        /\ d.releases # <<>>
        /\ d.releases[1].tag = TagR}

HashOrders == {<<1, 2, 3>>, <<3, 2, 1>>}

\* ---- the identifiers a caller passes

\* release-scoped paths: a tag, an entity path, a quantity name
EntityPaths == {<<"a">>, <<"a", "/", "b">>}

\* tag/entity/quantity for the entities and tags above, a path of the second
\* quantity name, a path whose entity part begins with the name of a release,
\* and two paths of fewer than three parts
PathBodies ==
    {t \o SLASH \o e \o SLASH \o <<"q">> : t \in Tags, e \in EntityPaths}
    \cup {TagR \o SLASH \o <<"a">> \o SLASH \o <<"p">>,
          TagReleases2 \o SLASH \o TagR \o SLASH \o <<"a">> \o SLASH \o <<"q">>,
          TagR \o SLASH \o <<"q">>,
          TagR}

\* a path with or without a leading "/" and a trailing "/"
Slashed(b) == {b, SLASH \o b, b \o SLASH, SLASH \o b \o SLASH}

\* each path as it is, and behind "/releases/"
PathTexts ==
    LET plain == UNION {Slashed(b) : b \in PathBodies}
    IN  plain \cup {RELEASES_PREFIX \o p : p \in plain}

TypedTexts ==
    {k \o SLASH \o UuidStr(u) :
        k \in {DATA_FILES, QUANTITIES, ENTITIES, FORMAT_SPECS}, u \in Uuids}

Identifiers ==
    {UuidId(u) : u \in Uuids}
    \cup {StrId(UuidStr(u)) : u \in Uuids}
    \cup {StrId(s) : s \in TypedTexts \cup PathTexts}

\* what a caller passes to query_entity: a UUID, or a full path
AskedFullPaths == {SLASH \o e : e \in EntityPaths} \cup {<<"/", "b">>}

EntityIdentifiers ==
    {UuidId(u) : u \in Uuids} \cup {StrId(p) : p \in AskedFullPaths}

\* what a caller passes to query_quantity: a UUID, or a full path, "/" and a name
AskedNames == QuantityNames \cup {<<"q", "q">>}

QuantityIdentifiers ==
    {UuidId(u) : u \in Uuids}
    \cup {StrId(p \o SLASH \o n) : p \in AskedFullPaths, n \in AskedNames}

NoCall ==
    [op |-> "none", identifier |-> UuidId(None), track |-> FALSE,
     out |-> Outcome(Raise(""), <<>>, {}), before |-> {}]

InitLoad ==
    /\ folder \in {JsonOnly(d) : d \in Schemas}
    /\ schema = NoSchema
    /\ exception = ""
    /\ hashOrder = <<1, 2, 3>>
    /\ pc = "new"
    /\ db = EmptyDb
    /\ other = EmptyDb
    /\ backend = "LocalInsDb"
    /\ tracked = {}
    /\ tracked_str = {}
    /\ queried_objects = {}
    /\ nq = 0
    /\ last = NoCall

Init ==
    /\ folder \in {JsonOnly(d) : d \in QuerySchemas}
    /\ schema = NoSchema
    /\ exception = ""
    /\ hashOrder \in HashOrders
    /\ pc = "new"
    /\ db = EmptyDb
    /\ other = EmptyDb
    /\ backend = "LocalInsDb"
    /\ tracked = {}
    /\ tracked_str = {}
    /\ queried_objects = {}
    /\ nq = 0
    /\ last = NoCall

\* LocalInsDb.__init__: check_consistency, read_schema and parse_schema; an
\* exception of any of them ends the construction
Construct ==
    /\ backend = "LocalInsDb"
    /\ pc = "new"
    /\ LET checked == CheckConsistency(folder)
           read    == ReadSchema(folder)
       IN  IF ~checked.ok
           THEN /\ pc' = "failed" /\ exception' = checked.error
                /\ UNCHANGED <<schema, db>>
           ELSE IF ~read.ok
           THEN /\ pc' = "failed" /\ exception' = read.error
                /\ UNCHANGED <<schema, db>>
           ELSE LET r == ParseSchema(read.v, hashOrder)
                IN  /\ schema' = read.v
                    /\ pc' = IF r.ok THEN "ready" ELSE "failed"
                    /\ exception' = r.error
                    /\ db' = r.db
    /\ UNCHANGED <<folder, hashOrder, backend, other, tracked, tracked_str,
                   queried_objects, nq, last>>

\* a call of op with its outcome: the tracked set grows by what the call added
\* the seven maps after a query method has run: the methods read the maps and
\* assign none of them, whatever they return or raise
IndexAfterQueryMutDropsPaths(idx, out) ==
    IF out.res.ok THEN [idx EXCEPT !.data_files = EmptyDict]
    ELSE [idx EXCEPT !.path_to_entity = EmptyDict]

IndexAfterQuery(idx, out) == idx

Call(op, identifier, track, out) ==
    /\ pc = "ready"
    /\ nq < MaxQueries
    /\ nq' = nq + 1
    /\ db' = IndexAfterQuery(db, out)
    /\ tracked' = tracked \cup out.added
    /\ tracked_str' = tracked_str \cup out.added_str
    /\ last' = [op |-> op, identifier |-> identifier, track |-> track,
                out |-> out, before |-> tracked]
    /\ UNCHANGED <<folder, schema, exception, hashOrder, backend, pc, other,
                   queried_objects>>

\* db.query_data_file(identifier, track)
DoQueryDataFile ==
    /\ backend = "LocalInsDb"
    /\ \E identifier \in Identifiers, track \in BOOLEAN :
        Call("query_data_file", identifier, track,
             QueryDataFile(db, hashOrder, identifier, track))

\* db.query(identifier, track)
DoQuery ==
    /\ backend = "LocalInsDb"
    /\ \E identifier \in Identifiers, track \in BOOLEAN :
        Call("query", identifier, track, Query(db, hashOrder, identifier, track))

\* db.query_entity(identifier)
DoQueryEntity ==
    /\ backend = "LocalInsDb"
    /\ \E identifier \in EntityIdentifiers :
        Call("query_entity", identifier, FALSE, QueryEntity(db, identifier))

\* db.query_quantity(identifier)
DoQueryQuantity ==
    /\ backend = "LocalInsDb"
    /\ \E identifier \in QuantityIdentifiers :
        Call("query_quantity", identifier, FALSE,
             QueryQuantity(db, hashOrder, identifier))

\* db.query_data_file(identifier, track) called a second time with the
\* identifier of the call before, on the same index object; the outcome of
\* the first call is kept beside that of the second
DoQueryDataFileAgain ==
    /\ backend = "LocalInsDb"
    /\ pc = "ready"
    /\ last.op = "query_data_file"
    /\ "first" \notin DOMAIN last
    /\ \E track \in BOOLEAN :
        LET out == QueryDataFile(db, hashOrder, last.identifier, track)
        IN  /\ nq' = nq + 1
            /\ db' = IndexAfterQuery(db, out)
            /\ tracked' = tracked \cup out.added
            /\ tracked_str' = tracked_str \cup out.added_str
            /\ last' = [op |-> "query_data_file", identifier |-> last.identifier,
                        track |-> track, out |-> out, before |-> tracked,
                        first |-> last.out]
    /\ UNCHANGED <<folder, schema, exception, hashOrder, backend, pc, other,
                   queried_objects>>

\* query_release: self.releases[tag]
QueryRelease(idx, tag) ==
    Outcome(Lookup(idx.releases, tag), <<At("releases", tag)>>, {})

\* db.query_format_spec(identifier)
DoQueryFormatSpec ==
    /\ backend = "LocalInsDb"
    /\ \E identifier \in {UuidId(u) : u \in Uuids} :
        Call("query_format_spec", identifier, FALSE,
             QueryFormatSpec(db, identifier.uuid))

\* db.query_release(tag)
DoQueryRelease ==
    /\ backend = "LocalInsDb"
    /\ \E tag \in Tags :
        Call("query_release", StrId(tag), FALSE, QueryRelease(db, tag))

\* the folders of the reading specification: each of the four schema files
\* is missing, or holds {}, or one of two documents that differ in the name
\* of their only entity
DocOf(forest) ==
    [format_specifications |-> <<[uuid |-> UuidStr(1)]>>, entities |-> forest,
     quantities |-> <<>>, data_files |-> <<>>, releases |-> <<>>]

ReadDocs == {NoSchema} \cup {DocOf(<<Node(1, n, <<>>)>>) : n \in EntityNames}

Folders ==
    [{SCHEMA_FILE_EXTENSIONS[i] : i \in 1..Len(SCHEMA_FILE_EXTENSIONS)} ->
        {<<>>} \cup {<<d>> : d \in ReadDocs}]

InitRead ==
    /\ folder \in Folders
    /\ schema = NoSchema
    /\ exception = ""
    /\ hashOrder = <<1, 2, 3>>
    /\ pc = "new"
    /\ db = EmptyDb
    /\ other = EmptyDb
    /\ backend = "LocalInsDb"
    /\ tracked = {}
    /\ tracked_str = {}
    /\ queried_objects = {}
    /\ nq = 0
    /\ last = NoCall

NextRead == Construct

SpecRead == InitRead /\ [][NextRead]_vars

\* the documents of the merging specification: one entity, at most one
\* quantity, one data file and one release, with no dangling reference
MergeSchemas ==
    {d \in [format_specifications : FormatSpecLists,
            entities   : {<<x>> : x \in Leaves},
            quantities : {<<>>} \cup {<<q>> : q \in QuantityDocs},
            data_files : {<<>>} \cup {<<f>> : f \in DataFileDocs},
            releases   : {<<>>} \cup {<<r>> : r \in ReleaseDocsOf(TagR)}] :
        ParseSchema(d, <<1, 2, 3>>).ok}

InitMerge ==
    /\ folder \in {JsonOnly(d) : d \in MergeSchemas}
    /\ schema = NoSchema
    /\ exception = ""
    /\ hashOrder = <<1, 2, 3>>
    /\ pc = "new"
    /\ db = EmptyDb
    /\ other \in {ParseSchema(d, <<1, 2, 3>>).db : d \in MergeSchemas}
    /\ backend = "LocalInsDb"
    /\ tracked = {}
    /\ tracked_str = {}
    /\ queried_objects = {}
    /\ nq = 0
    /\ last = NoCall

\* db.merge(other)
DoMerge ==
    /\ backend = "LocalInsDb"
    /\ pc = "ready"
    /\ nq < MaxQueries
    /\ nq' = nq + 1
    /\ db' = Merge(db, other)
    /\ last' = [op |-> "merge", identifier |-> UuidId(None), track |-> FALSE,
                out |-> Outcome(Ok(<<>>), <<>>, {}), before |-> tracked]
    /\ UNCHANGED <<folder, schema, exception, hashOrder, backend, pc, other,
                   tracked, tracked_str, queried_objects>>

NextMerge == Construct \/ DoMerge

SpecMerge == InitMerge /\ [][NextMerge]_vars

\* LocalDatabase.__init__ (the class behind InstrumentDatabase(local_folder)):
\* check_consistency wants schema.json, read_schema decodes it, parse_schema
\* is the text of LocalInsDb.parse_schema
ConstructLocalDatabase ==
    /\ backend = "LocalDatabase"
    /\ pc = "new"
    /\ IF ~Exists(folder, ".json")
       THEN /\ pc' = "failed" /\ exception' = InstrumentDbFormatError
            /\ UNCHANGED <<schema, db>>
       ELSE LET doc == folder[".json"][1]
                r   == ParseSchema(doc, hashOrder)
            IN  /\ schema' = doc
                /\ pc' = IF r.ok THEN "ready" ELSE "failed"
                /\ exception' = r.error
                /\ db' = r.db
    /\ UNCHANGED <<folder, hashOrder, backend, other, tracked, tracked_str,
                   queried_objects, nq, last>>

\* dbobject.query_data_file(identifier, track) on the LocalDatabase
DoLocalDatabaseQueryDataFile ==
    /\ backend = "LocalDatabase"
    /\ \E identifier \in Identifiers, track \in BOOLEAN :
        Call("query_data_file", identifier, track,
             LocalDatabaseQueryDataFile(db, hashOrder, identifier, track))

\* InstrumentDatabase.get_list_of_data_files(quantity_uuid, track): both
\* tracked sets grow, that of the wrapper and that of its dbobject
DoGetListOfDataFiles ==
    /\ backend = "LocalDatabase"
    /\ pc = "ready"
    /\ nq < MaxQueries
    /\ \E quantity_uuid \in Uuids, track \in BOOLEAN :
        LET out == GetListOfDataFiles(db, hashOrder, quantity_uuid, track)
        IN  /\ nq' = nq + 1
            /\ tracked' = tracked \cup out.added
            /\ tracked_str' = tracked_str \cup out.added_str
            /\ queried_objects' = queried_objects \cup out.queried
            /\ last' = [op |-> "get_list_of_data_files",
                        identifier |-> UuidId(quantity_uuid), track |-> track,
                        out |-> out, before |-> tracked]
    /\ UNCHANGED <<folder, schema, exception, hashOrder, backend, pc, db, other>>

\* the documents of the specification of the two classes: a root with a child,
\* two quantities, two data files with their upload dates, the release r
DatedFileDocsOf(u) ==
    {[uuid |-> UuidStr(u), upload_date |-> YearStr[y], quantity |-> UuidStr(q)] :
        y \in Years, q \in SchemaUuids}

DatedSchemas ==
    [format_specifications : FormatSpecLists,
     entities   : {<<Node(1, <<"a">>, <<Node(2, <<"b">>, <<>>)>>)>>},
     quantities : {<<q, p>> : q \in {d \in QuantityDocsOf(1) : d.entity = UuidStr(1)},
                             p \in {d \in QuantityDocsOf(2) : d.name = <<"p">>}},
     data_files : {<<f, g>> : f \in DatedFileDocsOf(1), g \in DatedFileDocsOf(2)},
     releases   : {<<r>> : r \in ReleaseDocsOf(TagR)}]

InitClasses ==
    /\ folder \in {JsonOnly(d) : d \in DatedSchemas}
    /\ schema = NoSchema
    /\ exception = ""
    /\ hashOrder \in HashOrders
    /\ backend \in {"LocalInsDb", "LocalDatabase"}
    /\ pc = "new"
    /\ db = EmptyDb
    /\ other = EmptyDb
    /\ tracked = {}
    /\ tracked_str = {}
    /\ queried_objects = {}
    /\ nq = 0
    /\ last = NoCall

NextClasses ==
    \/ Construct
    \/ ConstructLocalDatabase
    \/ DoQueryDataFile
    \/ DoLocalDatabaseQueryDataFile
    \/ DoGetListOfDataFiles

SpecClasses == InitClasses /\ [][NextClasses]_vars

\* ---- the InstrumentDatabase wrapper over a LocalDatabase, called twice

MaxWrapperCalls == 2

\* one entity with a child, a quantity on each, a data file of each quantity,
\* both in release "r"
WrapperSchemas ==
    {d \in DatedSchemas :
        /\ Len(d.format_specifications) = 1
        /\ d.quantities[1].name = <<"q">>
        /\ d.quantities[2].entity = UuidStr(2)
        /\ d.data_files[1].quantity = UuidStr(1)
        /\ d.data_files[1].upload_date = d.data_files[2].upload_date
        /\ d.releases[1].data_files = TextsOf({1, 2})}

\* what a caller passes to the wrapper: UUIDs, the text of a UUID, a path
WrapperIdentifiers ==
    {UuidId(u) : u \in Uuids}
    \cup {StrId(UuidStr(1)), StrId(TagR \o <<"/", "a", "/", "q">>)}

WrapperTexts ==
    {StrId(k \o SLASH \o UuidStr(u)) :
        k \in {DATA_FILES, QUANTITIES, ENTITIES, FORMAT_SPECS}, u \in {1, 3}}

InitWrapper ==
    /\ folder \in {JsonOnly(d) : d \in WrapperSchemas}
    /\ schema = NoSchema
    /\ exception = ""
    /\ hashOrder \in HashOrders
    /\ backend = "LocalDatabase"
    /\ pc = "new"
    /\ db = EmptyDb
    /\ other = EmptyDb
    /\ tracked = {}
    /\ tracked_str = {}
    /\ queried_objects = {}
    /\ nq = 0
    /\ last = NoCall

\* a call of a query method of the wrapper; the call before it is kept in prev
WrapperCall(op, identifier, track, out) ==
    /\ backend = "LocalDatabase"
    /\ pc = "ready"
    /\ nq < MaxWrapperCalls
    /\ nq' = nq + 1
    /\ tracked' = tracked \cup out.added
    /\ tracked_str' = tracked_str \cup out.added_str
    /\ queried_objects' = queried_objects \cup out.queried
    /\ last' = [op |-> op, identifier |-> identifier, track |-> track,
                out |-> out, before |-> tracked, prev |-> last]
    /\ UNCHANGED <<folder, schema, exception, hashOrder, backend, pc, db, other>>

DoWrapperQueryEntity ==
    /\ backend = "LocalDatabase"
    /\ \E u \in Uuids, track \in BOOLEAN :
            WrapperCall("query_entity", UuidId(u), track,
                        WrapperQueryEntity(db, u, track))

DoWrapperQueryQuantity ==
    /\ backend = "LocalDatabase"
    /\ \E u \in Uuids, track \in BOOLEAN :
            WrapperCall("query_quantity", UuidId(u), track,
                        WrapperQueryQuantity(db, u, track))

DoWrapperQueryDataFile ==
    /\ backend = "LocalDatabase"
    /\ \E identifier \in WrapperIdentifiers, track \in BOOLEAN :
            WrapperCall("query_data_file", identifier, track,
                        WrapperQueryDataFile(db, hashOrder, identifier, track))

DoWrapperQuery ==
    /\ backend = "LocalDatabase"
    /\ \E identifier \in WrapperIdentifiers \cup WrapperTexts, track \in BOOLEAN :
            WrapperCall("query", identifier, track,
                        WrapperQuery(db, hashOrder, identifier, track))

NextWrapper ==
    \/ ConstructLocalDatabase
    \/ DoWrapperQueryEntity
    \/ DoWrapperQueryQuantity
    \/ DoWrapperQueryDataFile
    \/ DoWrapperQuery

SpecWrapper == InitWrapper /\ [][NextWrapper]_vars

\* ---- a RemoteInsDb: the login, then one query

\* the status codes the server answers to the login request
LoginStatuses == {200, 401}

InitRemote ==
    /\ folder = JsonOnly(NoSchema)
    /\ schema = NoSchema
    /\ exception = ""
    /\ hashOrder = <<1, 2, 3>>
    /\ backend = "RemoteInsDb"
    /\ pc = "new"
    /\ db = EmptyDb
    /\ other = EmptyDb
    /\ tracked = {}
    /\ tracked_str = {}
    /\ queried_objects = {}
    /\ nq = 0
    /\ last = NoCall

\* RemoteInsDb(server_address, username, password): the login request
ConstructRemote ==
    /\ backend = "RemoteInsDb"
    /\ pc = "new"
    /\ \E status \in LoginStatuses :
        /\ pc' = IF status = 200 THEN "ready" ELSE "failed"
        /\ exception' = IF status = 200 THEN "" ELSE InstrumentDbConnectionError
    /\ UNCHANGED <<folder, schema, hashOrder, backend, db, other, tracked,
                   tracked_str, queried_objects, nq, last>>

\* db.query_data_file(identifier, track) over the network
DoRemoteQueryDataFile ==
    /\ backend = "RemoteInsDb"
    /\ \E identifier \in Identifiers, track \in BOOLEAN, reply \in Replies :
        Call("query_data_file", identifier, track,
             RemoteQueryDataFile(identifier, track, reply))

\* db.query(identifier, track) over the network
DoRemoteQuery ==
    /\ backend = "RemoteInsDb"
    /\ \E identifier \in Identifiers, track \in BOOLEAN, reply \in Replies :
        Call("query", identifier, track, RemoteQuery(identifier, track, reply))

NextRemote ==
    \/ ConstructRemote
    \/ DoRemoteQueryDataFile
    \/ DoRemoteQuery

SpecRemote == InitRemote /\ [][NextRemote]_vars

NextLoad == Construct

SpecLoad == InitLoad /\ [][NextLoad]_vars

Next ==
    \/ Construct
    \/ DoQueryDataFile
    \/ DoQuery
    \/ DoQueryEntity
    \/ DoQueryQuantity
    \/ DoQueryFormatSpec
    \/ DoQueryRelease

Spec == Init /\ [][Next]_vars

\* a load, a query_data_file and the same query once more
NextTwice ==
    \/ Construct
    \/ DoQueryDataFile
    \/ DoQueryDataFileAgain

SpecTwice == Init /\ [][NextTwice]_vars

\* ------------------------------------------------------------ properties

entities == db.entities
quantities == db.quantities
data_files == db.data_files
releases == db.releases

\* ---- the last call

Called(ops) == last.op \in ops
Text == last.identifier.text
Returned == last.out.res.ok
Raised(e) == ~last.out.res.ok /\ last.out.res.error = e

full_path(e) == entities.val[e].full_path
name(q) == quantities.val[q].name

\* what a call gave back, in a form two calls can be compared by
Result(out) ==
    IF out.res.ok THEN <<"returned", out.res.v.kind, out.res.v.uuid>>
    ELSE <<"raised", out.res.error, None>>

\* tag/entity/.../quantity
PathOf(t, e, n) == t \o SLASH \o e \o SLASH \o n

\* the entity paths of the identifiers: those of EntityPaths and "r/a"
AskedEntityPaths == EntityPaths \cup {TagR \o SLASH \o <<"a">>}

\* the paths of PathTexts that are not behind "/releases/"
PlainPaths == UNION {Slashed(b) : b \in PathBodies}

\* the number of non-empty "/"-separated segments of s
SegmentCount(s) ==
    Cardinality({i \in 1..Len(s) : s[i] # "/" /\ (i = 1 \/ s[i - 1] = "/")})

\* no two indexed Entities of one full_path, no two Quantities of one Entity
\* with one name
NamesAreUnique ==
    /\ \A e1 \in Keys(entities), e2 \in Keys(entities) :
          full_path(e1) = full_path(e2) => e1 = e2
    /\ \A q1 \in Keys(quantities), q2 \in Keys(quantities) :
          (quantities.val[q1].entity = quantities.val[q2].entity /\ name(q1) = name(q2))
              => q1 = q2

\* C1: query_data_file (and query) of 'tag/e1/.../en/q', where tag is an
\* indexed Release, /e1/.../en the full_path of an indexed Entity E, q the
\* name of a Quantity Q of E and some DataFile of Q is in the Release, returns
\* a DataFile whose quantity is Q and whose UUID is in the Release.
C1_ReleasePath ==
    Called({"query_data_file", "query"}) /\ last.identifier.form = "str" =>
        \A t \in Keys(releases), e \in Keys(entities) :
            \A q \in entities.val[e].quantities :
                (/\ Text = t \o full_path(e) \o SLASH \o name(q)
                 /\ quantities.val[q].data_files \cap releases.val[t].data_files # {})
                => /\ Returned
                   /\ last.out.res.v.kind = "DataFile"
                   /\ last.out.res.v.quantity = q
                   /\ last.out.res.v.uuid \in releases.val[t].data_files

\* C1 where full paths and quantity names are unique
C1_WhenNamesAreUnique == NamesAreUnique => C1_ReleasePath

\* an identifier that begins with "/releases" and not with "/releases/"
BeginsLikeReleases(text) == StartsWith(text, RELEASES) /\ ~StartsWith(text, RELEASES_PREFIX)

\* the Quantities of Entity e that are named n
Named(e, n) == {q \in entities.val[e].quantities : name(q) = n}

\* C2: querying a release path whose release, entity and quantity all exist,
\* while no data file of the quantity is in the named release, raises a
\* lookup error (KeyError) and returns no data file.
C2_NoFileInRelease ==
    Called({"query_data_file", "query"}) /\ last.identifier.form = "str" =>
        \A t \in Keys(releases), e \in Keys(entities) :
            \A q \in entities.val[e].quantities :
                LET body == t \o full_path(e) \o SLASH \o name(q)
                IN  (/\ Text \in {body, SLASH \o body, RELEASES_PREFIX \o body}
                     /\ db.path_to_entity.val[full_path(e)] = e
                     /\ \A q2 \in Named(e, name(q)) :
                           quantities.val[q2].data_files \cap releases.val[t].data_files = {})
                    => Raised(KeyError)

\* C2 for the identifiers that do not begin with "/releases" without being
\* behind "/releases/"
C2_UnlessBeginsLikeReleases ==
    ~(Called({"query"}) /\ BeginsLikeReleases(Text)) => C2_NoFileInRelease

\* the data file the last call returned is in the tracked set only if it was
\* there before (track=False), or it is in the tracked set (track=True)
TrackHonoured ==
    (Returned /\ last.out.res.v.kind = "DataFile") =>
        LET uuid == last.out.res.v.uuid
        IN  IF last.track THEN uuid \in tracked
            ELSE uuid \in tracked => uuid \in last.before

\* C3: query(identifier, track=False) never adds the UUID it resolved to what
\* get_queried_data_files returns, whether identifier is a UUID,
\* '/data_files/<uuid>' or a release path; query with track=True adds the
\* UUID of the data file it resolved.
C3_Track == Called({"query"}) => TrackHonoured

\* C3 for the calls that hand track on: query_data_file, and query of
\* '/data_files/<uuid>'
C3_WhereTrackIsForwarded ==
    (\/ Called({"query_data_file"})
     \/ Called({"query"}) /\ last.identifier.form = "str" /\ StartsWith(Text, DATA_FILES))
        => TrackHonoured

\* the maps query's typed lookups index, by the prefix of the identifier
TypedKinds ==
    {[prefix |-> DATA_FILES, map |-> "data_files", kind |-> "DataFile"],
     [prefix |-> QUANTITIES, map |-> "quantities", kind |-> "Quantity"],
     [prefix |-> ENTITIES, map |-> "entities", kind |-> "Entity"],
     [prefix |-> FORMAT_SPECS, map |-> "format_specs", kind |-> "FormatSpecification"]}

\* the lookup of uuid in the map named map: that one map is indexed and no
\* other, the object of that kind and UUID is returned, or KeyError is raised
TypedOutcome(map, kind, uuid) ==
    /\ last.out.lookups = <<At(map, uuid)>>
    /\ Has(db[map], uuid) =>
          /\ Returned
          /\ last.out.res.v.kind = kind
          /\ last.out.res.v.uuid = uuid
    /\ ~Has(db[map], uuid) => Raised(KeyError)

\* C4: query resolves a raw UUID as a data file, and a string that begins
\* with '/data_files', '/quantities', '/entities' or '/format_specs' by the
\* typed lookup of that kind with its last segment parsed as a UUID; it
\* returns an object of that kind and UUID and never takes the string for a
\* release path.
C4_Dispatch ==
    Called({"query"}) =>
        /\ last.identifier.form = "uuid" =>
              TypedOutcome("data_files", "DataFile", last.identifier.uuid)
        /\ last.identifier.form = "str" =>
              \A k \in TypedKinds, u \in Uuids :
                  Text = k.prefix \o SLASH \o UuidStr(u)
                      => TypedOutcome(k.map, k.kind, u)

\* query('/quantities/<uuid>') returned the Quantity of that UUID
C4_Witness ==
    /\ Called({"query"})
    /\ Text = QUANTITIES \o SLASH \o UuidStr(2)
    /\ Returned
    /\ last.out.res.v.kind = "Quantity"

\* C5: for a release path p that resolves, with or without a leading or a
\* trailing '/', query('/releases/' + p), query(p),
\* query_data_file('/releases/' + p) and query_data_file(p) return the data
\* file of one and the same UUID.
C5_FourForms ==
    (/\ Called({"query_data_file"})
     /\ last.identifier.form = "str"
     /\ Text \in PlainPaths
     /\ Returned) =>
        LET behind == StrId(RELEASES_PREFIX \o Text)
            same(out) == Result(out) = Result(last.out)
        IN  /\ same(Query(db, hashOrder, last.identifier, last.track))
            /\ same(Query(db, hashOrder, behind, last.track))
            /\ same(QueryDataFile(db, hashOrder, behind, last.track))

\* C5 for the paths that do not begin with "/releases"
C5_UnlessBeginsLikeReleases == ~BeginsLikeReleases(Text) => C5_FourForms

\* C6: query_data_file of a release path of fewer than 3 non-empty segments
\* raises the malformed-path error (ValueError) before it indexes any map; a
\* path of 3 or more is split into its first segment, the release tag, '/' and
\* the middle segments joined by '/', the entity full path, and its last
\* segment, the quantity name.
C6_Split ==
    Called({"query_data_file"}) /\ last.identifier.form = "str" =>
        /\ \A p \in PlainPaths :
              (Text \in {p, RELEASES_PREFIX \o p} /\ SegmentCount(p) < 3)
                  => /\ Raised(ValueError)
                     /\ last.out.lookups = <<>>
                     /\ last.out.added = {}
        /\ \A t \in Tags, e \in AskedEntityPaths, n \in QuantityNames :
              \A p \in Slashed(PathOf(t, e, n)) :
                  Text \in {p, RELEASES_PREFIX \o p}
                      => LET seen == last.out.lookups
                         IN  /\ ~Raised(ValueError)
                             /\ seen # <<>>
                             /\ seen[1] = At("releases", t)
                             /\ Len(seen) >= 2 => seen[2] = At("path_to_entity", SLASH \o e)
                             /\ Len(seen) >= 4 /\ Has(quantities, seen[4].key)
                                   => name(seen[4].key) = n
                             /\ Returned => name(last.out.res.v.quantity) = n

\* query_data_file('/releases/r/q'), a path of two segments, was refused
C6_Witness ==
    /\ Called({"query_data_file"})
    /\ Text = RELEASES_PREFIX \o TagR \o SLASH \o <<"q">>
    /\ Raised(ValueError)

\* a path of four segments was split and resolved
C6_WitnessSplit ==
    /\ Called({"query_data_file"})
    /\ Text = PathOf(TagR, <<"a", "/", "b">>, <<"q">>)
    /\ Returned

\* the release path t/e/n names something the index does not hold
Absent(t, e, n) ==
    \/ ~Has(releases, t)
    \/ ~Has(db.path_to_entity, SLASH \o e)
    \/ /\ Has(db.path_to_entity, SLASH \o e)
       /\ Named(db.path_to_entity.val[SLASH \o e], n) = {}

\* C7: query raises KeyError and returns nothing when the identifier has no
\* exact match: a typed identifier whose UUID its map does not hold, a release
\* path whose tag, entity full path or quantity name is absent.
C7_NoMatch ==
    Called({"query"}) /\ last.identifier.form = "str" =>
        /\ \A k \in TypedKinds, u \in Uuids :
              (Text = k.prefix \o SLASH \o UuidStr(u) /\ ~Has(db[k.map], u))
                  => Raised(KeyError)
        /\ \A t \in Tags, e \in AskedEntityPaths, n \in QuantityNames :
              \A p \in Slashed(PathOf(t, e, n)) :
                  (Text \in {p, RELEASES_PREFIX \o p} /\ Absent(t, e, n))
                      => Raised(KeyError)

\* C7 for the identifiers that do not begin with "/releases" without being
\* behind "/releases/"
C7_UnlessBeginsLikeReleases == ~BeginsLikeReleases(Text) => C7_NoMatch

\* C11: for every indexed Entity e, query_entity(e.uuid) and
\* query_entity(e.full_path) return records of one and the same UUID.
C11_EntityByPath ==
    (Called({"query_entity"}) /\ last.identifier.form = "uuid" /\ Returned) =>
        Result(QueryEntity(db, StrId(last.out.res.v.full_path))) = Result(last.out)

\* C11 where full paths and quantity names are unique
C11_WhenNamesAreUnique == NamesAreUnique => C11_EntityByPath

\* C16: a query_data_file call with track=True that raises (a UUID, or the
\* text of a UUID, that the index does not hold, a path that fails at any
\* step) leaves the tracked set as it was before the call.
C16_FailureTracksNothing ==
    (Called({"query_data_file"}) /\ last.track /\ ~Returned) => tracked = last.before

\* C16 for the identifiers that are paths
C16_ForPaths ==
    (last.identifier.form = "str" /\ ParseUuid(Text) = None) => C16_FailureTracksNothing

\* C19: query_quantity(entity_full_path + '/' + name) returns a Quantity of
\* the quantities set of the Entity at entity_full_path whose name is exactly
\* name, and raises KeyError when that Entity has no Quantity of that name.
C19_QuantityByPath ==
    Called({"query_quantity"}) /\ last.identifier.form = "str" =>
        \A p \in AskedFullPaths, n \in AskedNames :
            (Text = p \o SLASH \o n /\ Has(db.path_to_entity, p)) =>
                LET e == db.path_to_entity.val[p]
                IN  /\ Named(e, n) # {} =>
                          /\ Returned
                          /\ last.out.res.v.kind = "Quantity"
                          /\ last.out.res.v.uuid \in Named(e, n)
                    /\ Named(e, n) = {} => Raised(KeyError)

\* query_quantity('/a/qq') was refused although '/a' has a Quantity 'q'
C19_Witness ==
    /\ Called({"query_quantity"})
    /\ Text = <<"/", "a", "/", "q", "q">>
    /\ Has(db.path_to_entity, <<"/", "a">>)
    /\ Named(db.path_to_entity.val[<<"/", "a">>], <<"q">>) # {}
    /\ Raised(KeyError)

\* query_quantity('/a/b/q') returned the Quantity 'q' of '/a/b'
C19_WitnessReturned ==
    /\ Called({"query_quantity"})
    /\ Text = <<"/", "a", "/", "b", "/", "q">>
    /\ Returned

\* C8: after a load that succeeds, every Quantity's entity is the UUID of an
\* indexed Entity, and each Entity's quantities set holds exactly the indexed
\* Quantities whose entity field is that Entity.
C8_EntityQuantities ==
    pc = "ready" =>
        /\ \A q \in Keys(quantities) : Has(entities, quantities.val[q].entity)
        /\ \A e \in Keys(entities) :
              entities.val[e].quantities =
                  {q \in Keys(quantities) : quantities.val[q].entity = e}

\* a loaded index where one Entity owns two Quantities
C8_Witness ==
    /\ pc = "ready"
    /\ \E e \in Keys(entities) : Cardinality(entities.val[e].quantities) = 2

\* C9: after a load that succeeds, every DataFile's quantity is the UUID of an
\* indexed Quantity, and each Quantity's data_files set holds exactly the
\* indexed DataFiles whose quantity field is that Quantity.
C9_QuantityDataFiles ==
    pc = "ready" =>
        /\ \A f \in Keys(data_files) : Has(quantities, data_files.val[f].quantity)
        /\ \A q \in Keys(quantities) :
              quantities.val[q].data_files =
                  {f \in Keys(data_files) : data_files.val[f].quantity = q}

\* a loaded index of two Quantities where the second one owns a DataFile
C9_Witness ==
    /\ pc = "ready"
    /\ Len(quantities.keys) = 2
    /\ quantities.val[quantities.keys[2]].data_files # {}
    /\ quantities.val[quantities.keys[1]].data_files # {}

\* C10: after a load that succeeds, each DataFile's release_tags set is exactly
\* the set of tags of the indexed Releases whose data_files hold its UUID.
C10_ReleaseTags ==
    pc = "ready" =>
        \A f \in Keys(data_files) :
            data_files.val[f].release_tags =
                {t \in Keys(releases) : f \in releases.val[t].data_files}

\* a loaded index where one DataFile is in two Releases and another in none
C10_Witness ==
    /\ pc = "ready"
    /\ \E f \in Keys(data_files) : Cardinality(data_files.val[f].release_tags) = 2
    /\ \E f \in Keys(data_files) : data_files.val[f].release_tags = {}

\* C20: after a load, no two distinct indexed Entities share a full_path, and
\* path_to_entity maps the full_path of every indexed Entity to its own UUID.
C20_UniqueFullPaths ==
    pc = "ready" =>
        /\ \A e1 \in Keys(entities), e2 \in Keys(entities) :
              full_path(e1) = full_path(e2) => e1 = e2
        /\ \A e \in Keys(entities) :
              /\ Has(db.path_to_entity, full_path(e))
              /\ db.path_to_entity.val[full_path(e)] = e

\* what the loader does give: the keys of path_to_entity are the full paths of
\* the indexed Entities, each mapped to the last indexed Entity of that path
C20_LastOfEachPath ==
    pc = "ready" =>
        /\ Keys(db.path_to_entity) = {full_path(e) : e \in Keys(entities)}
        /\ \A p \in Keys(db.path_to_entity) :
              LET e == db.path_to_entity.val[p]
              IN  /\ Has(entities, e)
                  /\ full_path(e) = p
                  /\ \A i, j \in 1..Len(entities.keys) :
                        (entities.keys[i] = e /\ full_path(entities.keys[j]) = p)
                            => j <= i

\* ---- dangling cross-references of the loaded document

RECURSIVE ForestUuids(_)
ForestUuids(objs) ==
    IF objs = <<>> THEN {}
    ELSE {Head(objs).uuid} \cup ForestUuids(Head(objs).children)
                           \cup ForestUuids(Tail(objs))

\* the entries of a list that end up in the map: the last one of each key
LastOfKey(docs, i) == \A j \in (i + 1)..Len(docs) : docs[j].uuid # docs[i].uuid
LastOfTag(docs, i) == \A j \in (i + 1)..Len(docs) : docs[j].tag # docs[i].tag

QuantityUuidsOf(doc) == {doc.quantities[i].uuid : i \in 1..Len(doc.quantities)}
DataFileUuidsOf(doc) == {doc.data_files[i].uuid : i \in 1..Len(doc.data_files)}

DanglingQuantity(doc) ==
    \E i \in 1..Len(doc.quantities) :
        /\ LastOfKey(doc.quantities, i)
        /\ doc.quantities[i].entity \notin ForestUuids(doc.entities)

DanglingDataFile(doc) ==
    \E i \in 1..Len(doc.data_files) :
        /\ LastOfKey(doc.data_files, i)
        /\ doc.data_files[i].quantity \notin QuantityUuidsOf(doc)

DanglingMember(doc) ==
    \E i \in 1..Len(doc.releases) :
        /\ LastOfTag(doc.releases, i)
        /\ \E k \in 1..Len(doc.releases[i].data_files) :
               doc.releases[i].data_files[k] \notin DataFileUuidsOf(doc)

Dangling(doc) == DanglingQuantity(doc) \/ DanglingDataFile(doc) \/ DanglingMember(doc)

\* C15: loading a schema document with a dangling cross-reference (a Quantity
\* whose entity, a DataFile whose quantity or a Release member is a UUID that
\* its target map does not hold) fails with InstrumentDbFormatError, not with
\* a generic key error.
C15_DanglingIsFormatError ==
    (pc # "new" /\ Dangling(schema)) =>
        (pc = "failed" /\ exception = InstrumentDbFormatError)

\* what the loader does: a dangling reference, and nothing else in a document
\* that was found, ends the construction with the KeyError of the lookup
C15_DanglingIsKeyError ==
    (pc # "new" /\ schema # NoSchema) =>
        /\ Dangling(schema) <=> pc = "failed"
        /\ pc = "failed" => exception = KeyError

\* ---- which schema file is loaded

\* the positions, in the preference order, of the schema files that exist
Existing == {i \in 1..Len(SCHEMA_FILE_EXTENSIONS) : Exists(folder, SCHEMA_FILE_EXTENSIONS[i])}

FileAt(i) == folder[SCHEMA_FILE_EXTENSIONS[i]][1]

FirstExisting == CHOOSE i \in Existing : \A j \in Existing : i <= j
LastExisting == CHOOSE i \in Existing : \A j \in Existing : j <= i

\* C14: the schema document that is loaded is the first that exists in the
\* order schema.json, schema.json.gz, schema.yaml, schema.yaml.gz, also when
\* several exist; with none of them the construction fails with
\* InstrumentDbFormatError.
C14_FirstExistingIsLoaded ==
    pc # "new" =>
        /\ Existing = {} => (pc = "failed" /\ exception = InstrumentDbFormatError)
        /\ (Existing # {} /\ pc = "ready") => schema = FileAt(FirstExisting)

\* what read_schema does: every file that exists is decoded in turn, and the
\* last of them is the document that is tested and parsed
C14_LastExistingIsLoaded ==
    pc # "new" =>
        /\ Existing = {} => (pc = "failed" /\ exception = InstrumentDbFormatError)
        /\ Existing # {} =>
              IF FileAt(LastExisting) = NoSchema
              THEN pc = "failed" /\ exception = InstrumentDbFormatError
              ELSE pc = "ready" /\ schema = FileAt(LastExisting)
                   /\ db = ParseSchema(FileAt(LastExisting), hashOrder).db

\* ---- merge

\* the maps of self before the merge: what its constructor built
Mine == ParseSchema(schema, hashOrder).db

MapNames ==
    {"format_specs", "entities", "quantities", "data_files", "releases",
     "path_to_entity", "path_to_quantity"}

\* C12: a.merge(b) leaves in a the union of the maps of a and b: every key of
\* either index is present, a key of a alone keeps the record of a, and a key
\* of both (a shared Entity UUID in particular) has the record of b.
C12_Merge ==
    Called({"merge"}) =>
        \A m \in MapNames :
            /\ Keys(db[m]) = Keys(Mine[m]) \cup Keys(other[m])
            /\ \A k \in Keys(Mine[m]) \ Keys(other[m]) : db[m].val[k] = Mine[m].val[k]
            /\ \A k \in Keys(other[m]) : db[m].val[k] = other[m].val[k]

\* a merge of two indexes that share an Entity UUID with different records,
\* where each index also has a key that the other lacks
C12_Witness ==
    /\ Called({"merge"})
    /\ \E u \in Keys(Mine.entities) \cap Keys(other.entities) :
           /\ Mine.entities.val[u] # other.entities.val[u]
           /\ db.entities.val[u] = other.entities.val[u]
    /\ Keys(Mine.quantities) \ Keys(other.quantities) # {}
    /\ Keys(other.data_files) \ Keys(Mine.data_files) # {}

\* ---- a data file by its UUID and by the text of its UUID

\* the last call asked, with track=True, for the indexed data file u
AskedTracked(u) ==
    /\ Called({"query_data_file"})
    /\ last.track
    /\ last.identifier \in {UuidId(u), StrId(UuidStr(u))}

\* C17: for every indexed data file u, query_data_file(u) and
\* query_data_file(str(u)) return the same DataFile record, and with
\* track=True each adds the same element, the UUID value u, to the tracked set.
C17_UuidAndText ==
    \A u \in Keys(data_files) :
        AskedTracked(u) =>
            /\ Returned
            /\ last.out.res.v = data_files.val[u]
            /\ tracked = last.before \cup {u}
            /\ tracked_str = {}

\* LocalInsDb.query_data_file does so
C17_LocalInsDb == backend = "LocalInsDb" => C17_UuidAndText

\* LocalDatabase.query_data_file returns the same record for both, but for
\* the text it adds the text
C17_LocalDatabase ==
    \A u \in Keys(data_files) :
        (backend = "LocalDatabase" /\ AskedTracked(u)) =>
            /\ Returned
            /\ last.out.res.v = data_files.val[u]
            /\ last.identifier.form = "uuid" =>
                  (tracked = last.before \cup {u} /\ tracked_str = {})
            /\ last.identifier.form = "str" =>
                  (tracked = last.before /\ tracked_str = {UuidStr(u)})

\* ---- the data files of a quantity

Listed == last.out.res.v

\* the list holds every data file of quantity q once, oldest first
ListsFilesOf(q) ==
    /\ Returned
    /\ {Listed[i].uuid : i \in 1..Len(Listed)} = quantities.val[q].data_files
    /\ Len(Listed) = Cardinality(quantities.val[q].data_files)
    /\ \A i \in 1..Len(Listed) : Listed[i] = data_files.val[Listed[i].uuid]
    /\ \A i \in 1..Len(Listed), j \in 1..Len(Listed) :
           i < j => Listed[i].upload_date <= Listed[j].upload_date

\* C18: get_list_of_data_files(quantity_uuid) returns every data file of the
\* quantity once, ordered by upload_date with the oldest first, and the
\* empty list when the quantity does not resolve.
C18_ListOfDataFiles ==
    Called({"get_list_of_data_files"}) =>
        LET q == last.identifier.uuid
        IN  IF Has(quantities, q) THEN ListsFilesOf(q)
            ELSE Returned /\ Listed = <<>>

\* what the wrapper does over a LocalDatabase: the sorted list for a quantity
\* of the index, the KeyError of self.quantities[identifier] for any other
C18_ListOrKeyError ==
    Called({"get_list_of_data_files"}) =>
        LET q == last.identifier.uuid
        IN  IF Has(quantities, q) THEN ListsFilesOf(q)
            ELSE Raised(KeyError) /\ tracked = last.before /\ queried_objects = {}

\* a list of two data files that the set hands out newest first
C18_WitnessSorted ==
    /\ Called({"get_list_of_data_files"})
    /\ Returned
    /\ Len(Listed) = 2
    /\ Listed[1].upload_date < Listed[2].upload_date
    /\ IterSet(quantities.val[last.identifier.uuid].data_files, hashOrder)
           = <<Listed[2].uuid, Listed[1].uuid>>

\* ---------------------------------------------------------------------------
\* loader invariants on names, parents and paths

\* C21: after a load, no two Quantities in the quantities set of one Entity
\* have the same name, so path_to_quantity has one entry for each indexed
\* Quantity.
C21_UniqueQuantityNames ==
    pc = "ready" =>
        /\ \A e \in Keys(entities) :
              \A q1 \in entities.val[e].quantities, q2 \in entities.val[e].quantities :
                  name(q1) = name(q2) => q1 = q2
        /\ Cardinality(Keys(db.path_to_quantity)) = Cardinality(Keys(quantities))

\* the path of an indexed Quantity, as quantity_path builds it
quantity_path(q) == QuantityPath(entities, quantities, q).v

\* what the loader does keep: every quantity path is a key of path_to_quantity
\* and is mapped to the last indexed Quantity of that path
C21_LastOfEachQuantityPath ==
    pc = "ready" =>
        /\ Keys(db.path_to_quantity) = {quantity_path(q) : q \in Keys(quantities)}
        /\ \A p \in Keys(db.path_to_quantity) :
              LET q == db.path_to_quantity.val[p]
              IN  /\ Has(quantities, q)
                  /\ quantity_path(q) = p
                  /\ \A i, j \in 1..Len(quantities.keys) :
                        (quantities.keys[i] = q /\ quantity_path(quantities.keys[j]) = p)
                            => j <= i

\* a loaded index where one Entity owns two Quantities of different names
C21_SupportWitness ==
    /\ pc = "ready"
    /\ \E e \in Keys(entities) :
          \E q1 \in entities.val[e].quantities, q2 \in entities.val[e].quantities :
              name(q1) # name(q2)

parent(e) == entities.val[e].parent

\* following parent links from e ends at a root within as many steps as there
\* are indexed Entities
RECURSIVE ReachesRoot(_, _)
ReachesRoot(e, n) ==
    \/ parent(e) = None
    \/ /\ n > 0
       /\ Has(entities, parent(e))
       /\ ReachesRoot(parent(e), n - 1)

\* C22: the indexed Entities form a forest: from every Entity the parent links
\* reach an Entity whose parent is None in finitely many steps, and every
\* parent that is not None is the UUID of an indexed Entity.
C22_Forest ==
    pc = "ready" =>
        /\ \A e \in Keys(entities) : ReachesRoot(e, Len(entities.keys))
        /\ \A e \in Keys(entities) : parent(e) # None => Has(entities, parent(e))

\* what the loader does keep: every parent that is not None is indexed
C22_ParentsAreIndexed ==
    pc = "ready" =>
        \A e \in Keys(entities) : parent(e) # None => Has(entities, parent(e))

\* a loaded index with a child Entity below a root
C22_SupportWitness ==
    /\ pc = "ready"
    /\ \E e \in Keys(entities) : parent(e) # None /\ parent(e) # e

\* C23: every indexed Entity with a parent has the full_path of the indexed
\* parent followed by '/' and its own name; every root has full_path '/' + name
\* and parent None.
C23_FullPathOfParent ==
    pc = "ready" =>
        \A e \in Keys(entities) :
            IF parent(e) = None
            THEN full_path(e) = SLASH \o entities.val[e].name
            ELSE /\ Has(entities, parent(e))
                 /\ full_path(e) = full_path(parent(e)) \o SLASH \o entities.val[e].name

\* what the loader does keep: a full_path ends with '/' and the name, and a
\* root's path is the name alone
C23_PathEndsWithName ==
    pc = "ready" =>
        \A e \in Keys(entities) :
            LET n == entities.val[e].name
                p == full_path(e)
            IN  /\ Len(p) > Len(n)
                /\ SubSeq(p, Len(p) - Len(n), Len(p)) = SLASH \o n
                /\ parent(e) = None => p = SLASH \o n

\* a loaded index where a child two levels deep has the path of its parent
C23_SupportWitness ==
    /\ pc = "ready"
    /\ \E e \in Keys(entities) :
          /\ parent(e) # None
          /\ parent(e) # e
          /\ full_path(e) = full_path(parent(e)) \o SLASH \o entities.val[e].name

\* the number of nodes of the entity forest of a schema document
RECURSIVE NodeCount(_)
NodeCount(objs) ==
    IF objs = <<>> THEN 0
    ELSE 1 + NodeCount(Head(objs).children) + NodeCount(Tail(objs))

\* every node of the loaded forest has a UUID of its own
DistinctNodeUuids == Len(entities.keys) = NodeCount(schema.entities)

\* where no two nodes of the document share a UUID, the index is a forest and
\* every path is the path of the parent followed by '/' and the name
C23_DistinctUuidsGivePaths ==
    (pc = "ready" /\ DistinctNodeUuids) =>
        \A e \in Keys(entities) :
            /\ ReachesRoot(e, Len(entities.keys))
            /\ IF parent(e) = None
               THEN full_path(e) = SLASH \o entities.val[e].name
               ELSE /\ Has(entities, parent(e))
                    /\ full_path(e) =
                           full_path(parent(e)) \o SLASH \o entities.val[e].name

\* ---------------------------------------------------------------------------
\* release tags that begin with "releases"

\* the last call resolved the Quantity named as q below the path of e against
\* release t: it returned one of its data files that is in t, or raised
\* KeyError because t holds none of them
ResolvedAgainst(t, e, q) ==
    IF Returned
    THEN /\ last.out.res.v.kind = "DataFile"
         /\ last.out.res.v.uuid \in releases.val[t].data_files
         /\ Has(quantities, last.out.res.v.quantity)
         /\ name(last.out.res.v.quantity) = name(q)
         /\ full_path(quantities.val[last.out.res.v.quantity].entity) = full_path(e)
    ELSE /\ Raised(KeyError)
         /\ \A q2 \in Named(db.path_to_entity.val[full_path(e)], name(q)) :
               quantities.val[q2].data_files \cap releases.val[t].data_files = {}

\* the last call passed '/' + t + full_path + '/' + name for a release,
\* an Entity and a Quantity of the index, and was resolved against t
TagKeptIntact ==
    \A t \in Keys(releases), e \in Keys(entities) :
        \A q \in entities.val[e].quantities :
            Text = SLASH \o t \o full_path(e) \o SLASH \o name(q)
                => ResolvedAgainst(t, e, q)

\* C28: for every release tag t of the index, query('/' + t + full_path +
\* '/' + name) is resolved against release t, also when t begins with
\* 'releases' (as 'releases2' does): only the exact prefix '/releases/' is
\* removed from an identifier.
C28_QueryKeepsTag ==
    (Called({"query"}) /\ last.identifier.form = "str" /\ NamesAreUnique)
        => TagKeptIntact

\* query_data_file removes the exact prefix only
C28_QueryDataFileKeepsTag ==
    (Called({"query_data_file"}) /\ last.identifier.form = "str" /\ NamesAreUnique)
        => TagKeptIntact

\* query keeps every tag that does not begin with "releases"
C28_UnlessBeginsLikeReleases ==
    ~(Called({"query"}) /\ BeginsLikeReleases(Text)) => C28_QueryKeepsTag

\* query_data_file returned a data file of release 'releases2' for
\* '/releases2/a/q'
C28_SupportWitness ==
    /\ Called({"query_data_file"})
    /\ last.identifier.form = "str"
    /\ NamesAreUnique
    /\ Text = SLASH \o TagReleases2 \o <<"/", "a", "/", "q">>
    /\ Has(releases, TagReleases2)
    /\ Returned

\* ---------------------------------------------------------------------------
\* the index after merge

\* the derived sets of an index agree with the records of its maps
DerivedSetsAgree(idx) ==
    /\ \A e \in Keys(idx.entities) :
          idx.entities.val[e].quantities =
              {q \in Keys(idx.quantities) : idx.quantities.val[q].entity = e}
    /\ \A q \in Keys(idx.quantities) :
          idx.quantities.val[q].data_files =
              {f \in Keys(idx.data_files) : idx.data_files.val[f].quantity = q}
    /\ \A f \in Keys(idx.data_files) :
          idx.data_files.val[f].release_tags =
              {t \in Keys(idx.releases) : f \in idx.releases.val[t].data_files}

\* the two indexes of a merge have no Entity, Quantity, DataFile or Release
\* key in common
DisjointKeys ==
    \A m \in {"entities", "quantities", "data_files", "releases"} :
        Keys(Mine[m]) \cap Keys(other[m]) = {}

\* C29: after a.merge(b) of two indexes whose derived sets agree with their
\* maps, the derived sets of the merged index agree with the merged maps, also
\* when a and b share an Entity UUID, a Quantity UUID or a release tag.
C29_MergeKeepsDerivedSets ==
    (Called({"merge"}) /\ DerivedSetsAgree(Mine) /\ DerivedSetsAgree(other))
        => DerivedSetsAgree(db)

\* both operands of every merge have derived sets that agree with their maps
C29_OperandsAgree ==
    pc = "ready" => DerivedSetsAgree(Mine) /\ DerivedSetsAgree(other)

\* what merge does keep: the derived sets agree when the operands share no key
C29_DisjointKeysKeepDerivedSets ==
    (Called({"merge"}) /\ DisjointKeys) => DerivedSetsAgree(db)

\* a merge of two indexes without a common key, each with a Quantity
C29_SupportWitness ==
    /\ Called({"merge"})
    /\ DisjointKeys
    /\ Keys(Mine.quantities) # {}
    /\ Keys(other.quantities) # {}
    /\ Keys(other.releases) # {}

\* every entry of path_to_entity names an indexed Entity of that full_path
PathsNameTheirEntity(idx) ==
    \A p \in Keys(idx.path_to_entity) :
        LET uuid == idx.path_to_entity.val[p]
        IN  /\ Has(idx.entities, uuid)
            /\ idx.entities.val[uuid].full_path = p

\* C30: after any sequence of load and merge, every entry (path, uuid) of
\* path_to_entity has uuid indexed in entities with full_path = path, so
\* query_entity(path) returns no Entity of another full_path.
C30_PathToEntityAgrees ==
    pc = "ready" =>
        /\ PathsNameTheirEntity(db)
        /\ \A p \in Keys(db.path_to_entity) :
              LET out == QueryEntity(db, StrId(p))
              IN  out.res.ok => out.res.v.full_path = p

\* what holds: the entries agree after a load, and after a merge whose
\* operands share no Entity UUID
C30_AgreesUnlessSharedUuid ==
    (pc = "ready" /\ Keys(Mine.entities) \cap Keys(other.entities) = {})
        => PathsNameTheirEntity(db)

\* what holds after every merge: each entry names an indexed Entity
C30_EntriesAreIndexed ==
    pc = "ready" =>
        \A p \in Keys(db.path_to_entity) :
            Has(db.entities, db.path_to_entity.val[p])

\* a merge of two indexes of different Entities with the same full_path
C30_SupportWitness ==
    /\ Called({"merge"})
    /\ Keys(Mine.entities) \cap Keys(other.entities) = {}
    /\ \E e1 \in Keys(Mine.entities), e2 \in Keys(other.entities) :
          Mine.entities.val[e1].full_path = other.entities.val[e2].full_path

\* ---------------------------------------------------------------------------
\* queries leave the index alone

QueryOps ==
    {"query", "query_entity", "query_quantity", "query_data_file",
     "query_format_spec", "query_release"}

C25_IndexIsTheLoadedOne ==
    Called(QueryOps) => db = Mine

C25_WitnessRaised ==
    /\ Called(QueryOps)
    /\ ~Returned
    /\ Keys(db.path_to_entity) # {}

\* query_format_spec and query_release returned a record
C25_WitnessFormatSpec == Called({"query_format_spec"}) /\ Returned

C25_WitnessRelease ==
    /\ Called({"query_release"})
    /\ Returned
    /\ last.out.res.v.data_files # {}

\* ---------------------------------------------------------------------------
\* the same query twice

\* the last call repeated the call before it
Repeated == Called({"query_data_file"}) /\ "first" \in DOMAIN last

\* the data files of the Quantity named by the last path that are in release t
FilesInRelease(t, e, q) ==
    quantities.val[q].data_files \cap releases.val[t].data_files

C27_WitnessFailed == Repeated /\ ~Returned /\ ~last.first.res.ok

\* which of two data files of a release is returned follows the order in
\* which the set of the Quantity is iterated
C27_FirstOfTheSet ==
    (Called({"query_data_file"}) /\ last.identifier.form = "str" /\ Returned
        /\ NamesAreUnique) =>
        LET q == last.out.res.v.quantity
        IN  \A t \in Keys(releases) :
                (/\ Text = t \o full_path(quantities.val[q].entity) \o SLASH \o name(q)
                 /\ last.out.res.v.uuid \in releases.val[t].data_files)
                => last.out.res.v.uuid =
                      Head(IterSet(FilesInRelease(t, quantities.val[q].entity, q),
                                   hashOrder))

\* ---------------------------------------------------------------------------
\* the accessors of the InstrumentDatabase wrapper

\* the UUIDs of the objects of a kind that the calls up to call resolved with
\* track=True
RECURSIVE ResolvedWithTrack(_, _)
ResolvedWithTrack(call, kind) ==
    IF "prev" \notin DOMAIN call THEN {}
    ELSE (IF call.track /\ call.out.res.ok /\ call.out.res.v.kind = kind
          THEN {call.out.res.v.uuid} ELSE {})
         \cup ResolvedWithTrack(call.prev, kind)

Elements(seq) == {seq[i] : i \in 1..Len(seq)}

get_queried_entities == GetQueried(queried_objects, hashOrder, "Entity")
get_queried_quantities == GetQueried(queried_objects, hashOrder, "Quantity")
get_queried_data_files == GetQueried(queried_objects, hashOrder, "DataFile")

\* C26: after any sequence of tracked and untracked query_entity,
\* query_quantity, query_data_file and query calls of an InstrumentDatabase,
\* get_queried_entities() holds exactly the UUIDs of the Entities resolved with
\* track=True, get_queried_quantities() those of the Quantities and
\* get_queried_data_files() those of the DataFiles, each UUID once.
C26_AccessorsByKind ==
    /\ Elements(get_queried_entities) = ResolvedWithTrack(last, "Entity")
    /\ Elements(get_queried_quantities) = ResolvedWithTrack(last, "Quantity")
    /\ Elements(get_queried_data_files) = ResolvedWithTrack(last, "DataFile")
    /\ Len(get_queried_entities) = Cardinality(ResolvedWithTrack(last, "Entity"))
    /\ Len(get_queried_quantities) = Cardinality(ResolvedWithTrack(last, "Quantity"))
    /\ Len(get_queried_data_files) = Cardinality(ResolvedWithTrack(last, "DataFile"))

\* the Entity of UUID 1 was resolved twice with track=True, by query_entity
\* and by query: one entry, and none in the accessors of the other kinds
\* although a Quantity and a DataFile of UUID 1 are indexed
C26_Witness ==
    /\ nq = 2
    /\ last.op = "query" /\ last.prev.op = "query_entity"
    /\ last.track /\ last.prev.track
    /\ Returned /\ last.prev.out.res.ok
    /\ last.out.res.v.kind = "Entity" /\ last.out.res.v.uuid = 1
    /\ last.prev.out.res.v.uuid = 1
    /\ get_queried_entities = <<1>>
    /\ get_queried_quantities = <<>>
    /\ get_queried_data_files = <<>>
    /\ Has(quantities, 1) /\ Has(data_files, 1)

\* a tracked Quantity and an untracked DataFile
C26_WitnessUntracked ==
    /\ nq = 2
    /\ last.op = "query_data_file" /\ ~last.track /\ Returned
    /\ last.prev.op = "query_quantity" /\ last.prev.track /\ last.prev.out.res.ok
    /\ get_queried_quantities # <<>>
    /\ get_queried_data_files = <<>>

\* a FormatSpecification resolved with track=True is in none of the accessors
C26_WitnessFormatSpec ==
    /\ last.op = "query" /\ last.track /\ Returned
    /\ last.out.res.v.kind = "FormatSpecification"
    /\ <<"FormatSpecification", last.out.res.v.uuid>> \in queried_objects

\* ---------------------------------------------------------------------------
\* malformed identifiers on the remote backend

\* a string that is no UUID and no typed form, with fewer than three
\* non-empty segments behind an optional "/releases/"
Malformed(text) ==
    /\ ParseUuid(text) = None
    /\ \A k \in {DATA_FILES, QUANTITIES, ENTITIES, FORMAT_SPECS} : ~StartsWith(text, k)
    /\ SegmentCount(RemovePrefix(text, RELEASES_PREFIX)) < 3

RemoteCalled ==
    /\ backend = "RemoteInsDb"
    /\ Called({"query", "query_data_file"})
    /\ last.identifier.form = "str"

\* C24: on the remote backend, query and query_data_file report a malformed
\* identifier (a release path with fewer than 3 non-empty segments) as an
\* error, and do so before any network request is issued.
C24_MalformedBeforeRequest ==
    (RemoteCalled /\ Malformed(Text)) =>
        /\ ~Returned
        /\ last.out.lookups = <<>>

\* what the client does with a malformed path: it sends one request for it
\* below "/releases/", and raises only if the server does not answer 200
C24_ServerDecides ==
    (RemoteCalled /\ Malformed(Text)) =>
        /\ Len(last.out.lookups) = 1
        /\ StartsWith(last.out.lookups[1].url, RELEASES_PREFIX)
        /\ ~Returned => Raised(InstrumentDbConnectionError)

\* the only error raised without a request is that of a typed form whose
\* last segment is no UUID
C24_ErrorsWithoutRequest ==
    (RemoteCalled /\ ~Returned /\ last.out.lookups = <<>>) =>
        /\ Called({"query"})
        /\ Raised(ValueError)
        /\ \E k \in {DATA_FILES, QUANTITIES, ENTITIES, FORMAT_SPECS} : StartsWith(Text, k)

\* a path of one segment was sent to the server, which refused it
C24_SupportWitness ==
    /\ RemoteCalled
    /\ Text = TagR
    /\ Raised(InstrumentDbConnectionError)
    /\ last.out.lookups = <<Request(RELEASES_PREFIX \o TagR)>>


====
